---------------------------- MODULE Spec2Model ----------------------------
(***************************************************************************)
(* A model of the input parser (src/utils/input_parser.cpp) and of the     *)
(* HTTP routing wrapper (src/routing/http_wrapper.cpp) of VROOM.           *)
(*                                                                         *)
(* A JSON object is the sequence of its members in document order, a       *)
(* member being [key |-> <string>, val |-> <value>]; a JSON array is the   *)
(* sequence of its elements.  A thrown exception is the value of err in    *)
(* a function's result ("none" when it returns normally).                  *)
(***************************************************************************)
EXTENDS Integers, Sequences, FiniteSets, TLC

VARIABLES
  pc,            \* position of the function under study
  exc,           \* the exception that left it ("none" when none did)
  amount_len,    \* length of the amount arrays the input document is written with
  doc,           \* parse: the members of the top-level object read so far
  input,         \* parse: the Input object being filled
  json_vehicle,  \* get_vehicle: its argument
  amount_size,   \* get_vehicle: its argument
  vehicle,       \* get_vehicle: the Vehicle it returns
  server_port,   \* HttpWrapper: _server.port
  response,      \* send_then_receive: the characters appended to response
  error,         \* send_then_receive: the error_code of the last read_some
  sent,          \* send_then_receive: how many times the query was written
  failure,       \* send_then_receive: the network operation that failed
  json_string,   \* send_then_receive: the string it returns
  build,         \* get_matrices: "debug" (asserts checked) or "release" (NDEBUG)
  wrapper,       \* get_matrices: the subclass of HttpWrapper, "osrm" or "ors"
  locs,          \* get_matrices: its argument
  json_result,   \* get_matrices: the members of the response read so far
  m,             \* get_matrices: the Matrices being built
  nb_unfound_from_loc,
  nb_unfound_to_loc,
  durations_matrix,   \* get_matrices: whether the optional holds an array
  distances_matrix,
  written,       \* get_matrices: the cells of m written so far
  oob,           \* get_matrices: the accesses made beyond the end of a vector
  calls,         \* get_matrices: the calls made so far, in order
  what,          \* get_matrices: the message of the exception thrown
  route,         \* add_geometry: its argument, the steps and the geometry of a Route
  query,         \* add_geometry: the query built for the route service
  args,          \* a function called on its own: its arguments
  outcome,       \* a function called on its own: what it returned or threw
  sol            \* cvrp_or_opt: the raw_solution it holds a reference to

parseVars == <<amount_len, doc, input>>
vehicleVars == <<json_vehicle, amount_size, vehicle>>
httpVars == <<server_port, response, error, sent, failure, json_string>>
matricesVars == <<build, wrapper, locs, json_result, m, nb_unfound_from_loc,
                  nb_unfound_to_loc, durations_matrix, distances_matrix, written, oob,
                  calls, what>>
geometryVars == <<route, query>>
callVars == <<args, outcome>>
orOptVars == <<sol>>
vars == <<pc, exc, parseVars, vehicleVars, httpVars, matricesVars, geometryVars, callVars,
          orOptVars>>

(***************************************************************************)
(* Bounds of the model.                                                    *)
(***************************************************************************)
MaxAmountLen == 2   \* amount arrays have 1..MaxAmountLen components
MaxMembers == 3     \* members of a vehicle object given to get_vehicle
MaxFields == 2      \* members of the top-level object given to parse
MaxItems == 2       \* elements of a jobs / shipments / vehicles array
MaxResponse == 3    \* characters of a routing response
MaxLocs == 2        \* locations given to get_matrices
MaxNull == 1        \* null cells of one matrix of a response
MaxSteps == 3       \* job and break steps of a route given to add_geometry
MaxJobs == 4        \* jobs of the solution an or-opt move is applied to
MaxMatrixSize == 3  \* rows of a custom matrix given to get_matrix

(***************************************************************************)
(* JSON values.                                                            *)
(***************************************************************************)
Member(k, v) == [key |-> k, val |-> v]

Keys(object) == {object[i].key : i \in 1..Len(object)}

\* The amount array of n components used in the inputs: base+1, base+2, ...
AmountOf(n, base) == [i \in 1..n |-> base + i]

\* An indeterminate value: what a read of an uninitialized uint64_t gives.
Indeterminate == {0, 77}

(***************************************************************************)
(* Helpers of input_parser.cpp.                                            *)
(***************************************************************************)
HasMember(object, key) == key \in Keys(object)

\* object[key]: the value of the first member with that key.
Lookup(object, key) ==
  object[CHOOSE i \in 1..Len(object) :
           /\ object[i].key = key
           /\ \A j \in 1..(i - 1) : object[j].key # key].val

Returned(v) == [err |-> "none", msg |-> "", val |-> v]
Thrown(e, message) == [err |-> e, msg |-> message, val |-> <<>>]

\* The catch-all of get_amount's outer try block.
get_amount_rethrow(key, msg) == Thrown("InputException", "Invalid " \o key \o " array.")

get_amount(object, key, size) ==
  IF ~HasMember(object, key)
  THEN get_amount_rethrow(key, "")
  ELSE LET array == Lookup(object, key)
           array_size == Len(array)
       IN IF array_size # size
          THEN get_amount_rethrow(key,
                 "Inconsistent " \o key \o " length: " \o ToString(array_size)
                   \o " and " \o ToString(size) \o ".")
          ELSE Returned([i \in 1..size |-> array[i]])

parse_coordinates(object, key) == Lookup(object, key)

get_string(object, key) == IF HasMember(object, key) THEN Lookup(object, key) ELSE ""

get_double(object, key) == IF HasMember(object, key) THEN Lookup(object, key) ELSE 1

get_skills(object) ==
  IF HasMember(object, "skills")
  THEN {Lookup(object, "skills")[i] : i \in 1..Len(Lookup(object, "skills"))}
  ELSE {}

get_duration(object, key) == IF HasMember(object, key) THEN Lookup(object, key) ELSE 0

get_priority(object) == IF HasMember(object, "priority") THEN Lookup(object, "priority") ELSE 0

\* std::optional<T>: the empty sequence, or the sequence of one value.
get_value_for(object, key) == IF HasMember(object, key) THEN <<Lookup(object, key)>> ELSE <<>>

check_id(v, type) ==
  IF HasMember(v, "id")
  THEN Returned(<<>>)
  ELSE Thrown("InputException", "Missing id for " \o type \o ".")

\* TimeWindow(): the default, unconstrained window (its end stands for the
\* largest duration).
TimeWindowDefault == <<0, 2147483647>>

get_time_window(tw) == <<tw[1], tw[2]>>

get_vehicle_time_window(v) ==
  IF HasMember(v, "time_window")
  THEN get_time_window(Lookup(v, "time_window"))
  ELSE TimeWindowDefault

\* TimeWindow's operator<, as std::sort uses it.
TwLess(a, b) == a[1] < b[1] \/ (a[1] = b[1] /\ a[2] < b[2])

RECURSIVE SortTws(_)
SortTws(tws) ==
  IF Len(tws) <= 1 THEN tws
  ELSE LET least == CHOOSE i \in 1..Len(tws) :
                      \A j \in 1..Len(tws) : ~TwLess(tws[j], tws[i]) /\ (tws[j] = tws[i] => i <= j)
           rest == [k \in 1..(Len(tws) - 1) |-> IF k < least THEN tws[k] ELSE tws[k + 1]]
       IN <<tws[least]>> \o SortTws(rest)

\* A JSON value that is no array (a number, a string): a function that is
\* no sequence, so that get_array() can tell it from every array.
NotAnArray == [k \in {0} |-> 0]

\* get_array() succeeds.
IsArray(value) == 0 \notin DOMAIN value

get_time_windows(o) ==
  IF \/ ~HasMember(o, "time_windows")
     \/ ~IsArray(Lookup(o, "time_windows"))
     \/ Lookup(o, "time_windows") = <<>>
  THEN IF HasMember(o, "id")
       THEN Thrown("InputException",
                   "Invalid time_windows array for object " \o ToString(Lookup(o, "id")) \o ".")
       ELSE Thrown("simdjson_error", "NO_SUCH_FIELD")
  ELSE Returned(SortTws([i \in 1..Len(Lookup(o, "time_windows")) |->
                           get_time_window(Lookup(o, "time_windows")[i])]))


get_break(b, size) ==
  LET id == check_id(b, "break")
      max_load == IF HasMember(b, "max_load")
                  THEN get_amount(b, "max_load", size)
                  ELSE Returned(<<>>)
      tws == get_time_windows(b)
  IN IF id.err # "none" THEN id
     ELSE IF max_load.err # "none" THEN max_load
     ELSE IF tws.err # "none" THEN tws
     ELSE Returned([id |-> Lookup(b, "id"),
                    tws |-> tws.val,
                    service |-> get_duration(b, "service"),
                    description |-> get_string(b, "description"),
                    max_load |-> IF HasMember(b, "max_load") THEN <<max_load.val>> ELSE <<>>])

\* The comparison get_vehicle_breaks sorts the breaks with.
BreakLess(a, b) == TwLess(a.tws[1], b.tws[1])

RECURSIVE SortBreaks(_)
SortBreaks(breaks) ==
  IF Len(breaks) <= 1 THEN breaks
  ELSE LET least == CHOOSE i \in 1..Len(breaks) :
                      \A j \in 1..Len(breaks) :
                        ~BreakLess(breaks[j], breaks[i]) /\ (~BreakLess(breaks[i], breaks[j]) => i <= j)
           rest == [k \in 1..(Len(breaks) - 1) |-> IF k < least THEN breaks[k] ELSE breaks[k + 1]]
       IN <<breaks[least]>> \o SortBreaks(rest)

get_vehicle_breaks(v, size) ==
  IF ~HasMember(v, "breaks") THEN Returned(<<>>)
  ELSE LET array == Lookup(v, "breaks")
           each == [i \in 1..Len(array) |-> get_break(array[i], size)]
       IN IF \E i \in 1..Len(array) : each[i].err # "none"
          THEN IF HasMember(v, "id")
               THEN Thrown("InputException",
                           "Invalid breaks for vehicle " \o ToString(Lookup(v, "id")) \o ".")
               ELSE Thrown("simdjson_error", "NO_SUCH_FIELD")
          ELSE Returned(SortBreaks([i \in 1..Len(array) |-> each[i].val]))

(***************************************************************************)
(* Location: a matrix index, coordinates, or both.  std::optional<Location>*)
(* is the empty sequence or the sequence of one Location.                  *)
(***************************************************************************)
LocationOfIndex(index) == [index |-> <<index>>, coords |-> <<>>]
LocationOfCoords(coords) == [index |-> <<>>, coords |-> coords]
LocationOfBoth(index, coords) == [index |-> <<index>>, coords |-> coords]

\* The four-way choice get_vehicle, get_job and parse build a location with.
MakeLocation(has_index, index, has_coords, coords) ==
  IF has_index
  THEN IF has_coords THEN <<LocationOfBoth(index, coords)>> ELSE <<LocationOfIndex(index)>>
  ELSE IF has_coords THEN <<LocationOfCoords(coords)>> ELSE <<>>

(***************************************************************************)
(* get_vehicle.  Its locals, as declared; g is the indeterminate value of  *)
(* the uninitialized ones.                                                 *)
(***************************************************************************)
DEFAULT_COST_PER_HOUR == 3600
DEFAULT_COST_PER_KM == 0
DEFAULT_PROFILE == "car"

VehicleLocals(size, g) ==
  [err |-> "none", msg |-> "",
   v_id |-> g,
   start_coordinates |-> <<>>, start_index |-> g,
   end_coordinates |-> <<>>, end_index |-> g,
   profile |-> "",
   capacity |-> [i \in 1..size |-> 0],
   skills |-> {},
   tw |-> TimeWindowDefault,
   breaks |-> <<>>,
   description |-> "",
   speed_factor |-> 1,
   max_tasks |-> <<>>, max_travel_time |-> <<>>, max_distance |-> <<>>,
   steps |-> <<>>,
   has_start_coords |-> FALSE, has_end_coords |-> FALSE,
   has_start_index |-> FALSE, has_end_index |-> FALSE,
   fixed |-> 0, per_hour |-> DEFAULT_COST_PER_HOUR, per_km |-> DEFAULT_COST_PER_KM]

Raise(l, r) == [l EXCEPT !.err = r.err, !.msg = r.msg]

\* The branch of the loop over the vehicle's members taken for the key "start_index".
VehicleStartIndex(l, member) == [l EXCEPT !.start_index = member.val]

\* The branch taken for the key "end_index".
VehicleEndIndex(l, member) == [l EXCEPT !.end_index = member.val]

\* The key the time-window branch of the loop is taken for.
VehicleTimeWindowKey == "tw"

\* The body of the inner loop over the members of "cost": member is the
\* vehicle's member "cost", whose value is an object, not a number.
VehicleCost(l, member) ==
  IF \E i \in 1..Len(member.val) : member.val[i].key \in {"fixed", "per_hour", "per_km"}
  THEN [l EXCEPT !.err = "simdjson_error", !.msg = "INCORRECT_TYPE"]
  ELSE l

\* One iteration of the loop over the vehicle's members.
VehicleMember(l, member, v, size) ==
  LET key == member.key
  IN IF key = "id" THEN [l EXCEPT !.v_id = member.val]
     ELSE IF key = "start"
       THEN [l EXCEPT !.start_coordinates = parse_coordinates(v, "start"),
                      !.has_start_coords = TRUE]
     ELSE IF key = "start_index" THEN VehicleStartIndex(l, member)
     ELSE IF key = "end"
       THEN [l EXCEPT !.end_coordinates = parse_coordinates(v, "end"),
                      !.has_end_coords = TRUE]
     ELSE IF key = "end_index" THEN VehicleEndIndex(l, member)
     ELSE IF key = "profile"
       THEN [l EXCEPT !.profile = IF get_string(v, "profile") = ""
                                  THEN DEFAULT_PROFILE
                                  ELSE get_string(v, "profile")]
     ELSE IF key = "capacity"
       THEN LET r == get_amount(v, "capacity", size)
            IN IF r.err # "none" THEN Raise(l, r) ELSE [l EXCEPT !.capacity = r.val]
     ELSE IF key = "skills" THEN [l EXCEPT !.skills = get_skills(v)]
     ELSE IF key = VehicleTimeWindowKey THEN [l EXCEPT !.tw = get_vehicle_time_window(v)]
     ELSE IF key = "breaks"
       THEN LET r == get_vehicle_breaks(v, size)
            IN IF r.err # "none" THEN Raise(l, r) ELSE [l EXCEPT !.breaks = r.val]
     ELSE IF key = "description" THEN [l EXCEPT !.description = get_string(v, "description")]
     ELSE IF key = "cost" THEN VehicleCost(l, member)
     ELSE IF key = "speed_factor" THEN [l EXCEPT !.speed_factor = get_double(v, "speed_factor")]
     ELSE IF key = "max_tasks" THEN [l EXCEPT !.max_tasks = get_value_for(v, "max_tasks")]
     ELSE IF key = "max_travel_time"
       THEN [l EXCEPT !.max_travel_time = get_value_for(v, "max_travel_time")]
     ELSE IF key = "max_distance"
       THEN [l EXCEPT !.max_distance = get_value_for(v, "max_distance")]
     ELSE IF key = "steps" THEN [l EXCEPT !.steps = <<>>]
     ELSE l

\* The loop over the members from the i-th on; it ends at the first throw.
RECURSIVE VehicleLoop(_, _, _, _)
VehicleLoop(l, i, v, size) ==
  IF i > Len(v) \/ l.err # "none" THEN l
  ELSE VehicleLoop(VehicleMember(l, v[i], v, size), i + 1, v, size)

get_vehicle(v, size, g) ==
  LET l == VehicleLoop(VehicleLocals(size, g), 1, v, size)
  IN IF l.err # "none" THEN Thrown(l.err, l.msg)
     ELSE Returned(
       [id |-> l.v_id,
        start |-> MakeLocation(l.has_start_index, l.start_index,
                               l.has_start_coords, l.start_coordinates),
        end |-> MakeLocation(l.has_end_index, l.end_index,
                             l.has_end_coords, l.end_coordinates),
        profile |-> l.profile,
        capacity |-> l.capacity,
        skills |-> l.skills,
        tw |-> l.tw,
        breaks |-> l.breaks,
        description |-> l.description,
        costs |-> <<l.fixed, l.per_hour, l.per_km>>,
        speed_factor |-> l.speed_factor,
        max_tasks |-> l.max_tasks,
        max_travel_time |-> l.max_travel_time,
        max_distance |-> l.max_distance,
        steps |-> l.steps])

(***************************************************************************)
(* get_job.                                                                *)
(***************************************************************************)
JobLocals(size, g) ==
  [err |-> "none", msg |-> "",
   v_id |-> g,
   location_coordinates |-> <<>>, location_index |-> g,
   setup |-> 0, service |-> 0,
   delivery |-> [i \in 1..size |-> 0],
   pickup |-> [i \in 1..size |-> 0],
   skills |-> {},
   priority |-> 0,
   tws |-> <<TimeWindowDefault>>,
   description |-> "",
   has_location_coords |-> FALSE, has_location_index |-> FALSE]

\* One iteration of the loop over the job's members.
JobMember(l, member, j, size) ==
  LET key == member.key
  IN IF key = "id" THEN [l EXCEPT !.v_id = member.val]
     ELSE IF key = "location_index"
       THEN [l EXCEPT !.has_location_index = TRUE, !.location_index = member.val]
     ELSE IF key = "location"
       THEN [l EXCEPT !.has_location_coords = TRUE,
                      !.location_coordinates = parse_coordinates(j, "location")]
     ELSE IF key = "setup" THEN [l EXCEPT !.setup = get_duration(j, "setup")]
     ELSE IF key = "service" THEN [l EXCEPT !.service = get_duration(j, "service")]
     ELSE IF key = "delivery"
       THEN LET r == get_amount(j, "delivery", size)
            IN IF r.err # "none" THEN Raise(l, r) ELSE [l EXCEPT !.delivery = r.val]
     ELSE IF key = "amount"
       THEN LET r == get_amount(j, "amount", size)
            IN IF r.err # "none" THEN Raise(l, r) ELSE [l EXCEPT !.delivery = r.val]
     ELSE IF key = "pickup"
       THEN LET r == get_amount(j, "pickup", size)
            IN IF r.err # "none" THEN Raise(l, r) ELSE [l EXCEPT !.pickup = r.val]
     ELSE IF key = "skills" THEN [l EXCEPT !.skills = get_skills(j)]
     ELSE IF key = "priority" THEN [l EXCEPT !.priority = get_priority(j)]
     ELSE IF key = "time_windows"
       THEN LET r == get_time_windows(j)
            IN IF r.err # "none" THEN Raise(l, r) ELSE [l EXCEPT !.tws = r.val]
     ELSE IF key = "description" THEN [l EXCEPT !.description = get_string(j, "description")]
     ELSE l

RECURSIVE JobLoop(_, _, _, _)
JobLoop(l, i, j, size) ==
  IF i > Len(j) \/ l.err # "none" THEN l
  ELSE JobLoop(JobMember(l, j[i], j, size), i + 1, j, size)

\* location.value() of an empty std::optional throws std::bad_optional_access.
get_job(j, size, g) ==
  LET l == JobLoop(JobLocals(size, g), 1, j, size)
      location == MakeLocation(l.has_location_index, l.location_index,
                               l.has_location_coords, l.location_coordinates)
  IN IF l.err # "none" THEN Thrown(l.err, l.msg)
     ELSE IF location = <<>> THEN Thrown("bad_optional_access", "bad optional access")
     ELSE Returned(
       [id |-> l.v_id,
        type |-> "SINGLE",
        location |-> location[1],
        setup |-> l.setup,
        service |-> l.service,
        delivery |-> l.delivery,
        pickup |-> l.pickup,
        skills |-> l.skills,
        priority |-> l.priority,
        tws |-> l.tws,
        description |-> l.description])

(***************************************************************************)
(* The inputs of get_vehicle: every object of up to MaxMembers members     *)
(* with distinct keys drawn from VehicleMembers.                           *)
(***************************************************************************)
VehicleMembers(n) ==
  << Member("id", 1),
     Member("start", <<2, 48>>),
     Member("start_index", 0),
     Member("end", <<3, 49>>),
     Member("end_index", 1),
     Member("time_window", <<10, 20>>),
     Member("tw", <<30, 40>>),
     Member("capacity", AmountOf(n, 0)),
     Member("skills", <<5, 7>>),
     Member("cost", <<Member("fixed", 11), Member("per_hour", 12), Member("per_km", 13)>>),
     Member("cost", <<>>),
     Member("steps", <<[type |-> "start"], [type |-> "end"]>>),
     Member("max_tasks", 4) >>

\* The sequences of up to k distinct numbers of 1..n.
InjectiveSeqs(n, k) ==
  {s \in UNION {[1..len -> 1..n] : len \in 0..k} :
     \A i, j \in DOMAIN s : i # j => s[i] # s[j]}

ObjectOf(members, s) == [i \in DOMAIN s |-> members[s[i]]]

DistinctKeys(object) == Cardinality(Keys(object)) = Len(object)

VehicleObjects(n) ==
  {o \in {ObjectOf(VehicleMembers(n), s) :
            s \in InjectiveSeqs(Len(VehicleMembers(n)), MaxMembers)} : DistinctKeys(o)}

\* The Input before parse fills it.  shipments holds the (pickup, delivery)
\* pairs given to add_shipment; matrices holds the (profile, kind, matrix)
\* triples given to set_durations_matrix, set_distances_matrix and
\* set_costs_matrix.
NoInput == [amount_size |-> 0, geometry |-> FALSE, jobs |-> <<>>, shipments |-> <<>>,
            vehicles |-> <<>>, matrices |-> <<>>]

\* The variables of the functions a specification does not run.
IdleParse == doc = <<>> /\ input = NoInput

IdleVehicle == json_vehicle = <<>> /\ amount_size = 0 /\ vehicle = <<>>

IdleHttp ==
  /\ server_port = "" /\ response = <<>> /\ error = "none"
  /\ sent = 0 /\ failure = "none" /\ json_string = <<>>

IdleGeometry == route = <<>> /\ query = ""

IdleCall == args = <<>> /\ outcome = <<>>

IdleOrOpt == sol = <<>>

IdleMatrices ==
  /\ build = "" /\ wrapper = "" /\ locs = <<>> /\ json_result = <<>> /\ m = <<>>
  /\ nb_unfound_from_loc = <<>> /\ nb_unfound_to_loc = <<>>
  /\ durations_matrix = FALSE /\ distances_matrix = FALSE
  /\ written = {} /\ oob = {} /\ calls = <<>> /\ what = ""

InitVehicle ==
  /\ pc = "get_vehicle"
  /\ exc = "none"
  /\ amount_len \in 1..MaxAmountLen
  /\ amount_size \in 1..MaxAmountLen
  /\ json_vehicle \in VehicleObjects(amount_len)
  /\ vehicle = <<>>
  /\ IdleParse /\ IdleHttp /\ IdleMatrices /\ IdleGeometry /\ IdleCall /\ IdleOrOpt

GetVehicle ==
  /\ pc = "get_vehicle"
  /\ \E g \in Indeterminate :
       LET r == get_vehicle(json_vehicle, amount_size, g)
       IN /\ exc' = r.err
          /\ vehicle' = r.val
          /\ pc' = IF r.err = "none" THEN "returned" ELSE "thrown"
  /\ UNCHANGED <<json_vehicle, amount_size, parseVars, httpVars, matricesVars, geometryVars, callVars, orOptVars>>

NextVehicle == GetVehicle

SpecVehicle == InitVehicle /\ [][NextVehicle]_vars

(***************************************************************************)
(* C6: a vehicle object with time_window [s, e] yields a Vehicle whose     *)
(* time window is [s, e]; a vehicle without that key gets the default      *)
(* window.                                                                 *)
(***************************************************************************)
C6_TimeWindowCarried ==
  pc = "returned" =>
    vehicle.tw = IF HasMember(json_vehicle, "time_window")
                 THEN Lookup(json_vehicle, "time_window")
                 ELSE TimeWindowDefault

(***************************************************************************)
(* C7: the start (resp. end) location carries the matrix index when        *)
(* start_index (resp. end_index) is present, the coordinates when start    *)
(* (resp. end) is present, and is absent only when neither is given.       *)
(***************************************************************************)
ExpectedLocation(object, index_key, coords_key) ==
  MakeLocation(HasMember(object, index_key),
               IF HasMember(object, index_key) THEN Lookup(object, index_key) ELSE 0,
               HasMember(object, coords_key),
               IF HasMember(object, coords_key) THEN Lookup(object, coords_key) ELSE <<>>)

C7_LocationFromInput ==
  pc = "returned" =>
    /\ vehicle.start = ExpectedLocation(json_vehicle, "start_index", "start")
    /\ vehicle.end = ExpectedLocation(json_vehicle, "end_index", "end")

(***************************************************************************)
(* parse: the body of the loop over the elements of "shipments".           *)
(***************************************************************************)
ShipmentLocals(g) ==
  [err |-> "none", msg |-> "",
   amount |-> <<0>>, skills |-> {}, priority |-> 0,
   pickup_id |-> g,
   pickup_location_coordinates |-> <<>>, pickup_location_index |-> g,
   pickup_setup |-> 0, pickup_service |-> 0,
   pickup_tws |-> <<TimeWindowDefault>>,
   pickup_description |-> "",
   has_pickup_location_coords |-> FALSE, has_pickup_location_index |-> FALSE,
   delivery_id |-> g,
   delivery_location_coordinates |-> <<>>, delivery_location_index |-> g,
   delivery_setup |-> 0, delivery_service |-> 0,
   delivery_tws |-> <<TimeWindowDefault>>,
   delivery_description |-> "",
   has_delivery_location_coords |-> FALSE, has_delivery_location_index |-> FALSE]

\* "auto subkey = member.key().value()": inside the loop over the
\* sub-object's members, the key read is that of the shipment's member.
ShipmentSubkey(member, submember) == member.key

\* One iteration of the loop over the members of the "pickup" sub-object.
PickupSubmember(l, member, submember, pickup) ==
  LET key == member.key
      subkey == ShipmentSubkey(member, submember)
  IN IF subkey = "id" THEN [l EXCEPT !.pickup_id = member.val]
     ELSE IF subkey = "setup" THEN [l EXCEPT !.pickup_setup = get_duration(pickup, "setup")]
     ELSE IF subkey = "service"
       THEN [l EXCEPT !.pickup_service = get_duration(pickup, "service")]
     ELSE IF subkey = "time_windows"
       THEN LET r == get_time_windows(pickup)
            IN IF r.err # "none" THEN Raise(l, r) ELSE [l EXCEPT !.pickup_tws = r.val]
     ELSE IF key = "location_index"
       THEN [l EXCEPT !.has_pickup_location_index = TRUE, !.pickup_location_index = member.val]
     ELSE IF key = "location"
       THEN [l EXCEPT !.has_pickup_location_coords = TRUE,
                      !.pickup_location_coordinates = parse_coordinates(pickup, "location")]
     ELSE IF subkey = "description"
       THEN [l EXCEPT !.pickup_description = get_string(pickup, "description")]
     ELSE l

\* One iteration of the loop over the members of the "delivery" sub-object;
\* its helpers are called on the object named pickup.
DeliverySubmember(l, member, submember, pickup) ==
  LET key == member.key
      subkey == ShipmentSubkey(member, submember)
  IN IF subkey = "id" THEN [l EXCEPT !.delivery_id = member.val]
     ELSE IF subkey = "setup" THEN [l EXCEPT !.delivery_setup = get_duration(pickup, "setup")]
     ELSE IF subkey = "service"
       THEN [l EXCEPT !.delivery_service = get_duration(pickup, "service")]
     ELSE IF subkey = "time_windows"
       THEN LET r == get_time_windows(pickup)
            IN IF r.err # "none" THEN Raise(l, r) ELSE [l EXCEPT !.delivery_tws = r.val]
     ELSE IF key = "location_index"
       THEN [l EXCEPT !.has_delivery_location_index = TRUE, !.delivery_location_index = member.val]
     ELSE IF key = "location"
       THEN [l EXCEPT !.has_delivery_location_coords = TRUE,
                      !.delivery_location_coordinates = parse_coordinates(pickup, "location")]
     ELSE IF subkey = "description"
       THEN [l EXCEPT !.delivery_description = get_string(pickup, "description")]
     ELSE l

RECURSIVE PickupLoop(_, _, _)
PickupLoop(l, i, member) ==
  IF i > Len(member.val) \/ l.err # "none" THEN l
  ELSE PickupLoop(PickupSubmember(l, member, member.val[i], member.val), i + 1, member)

RECURSIVE DeliveryLoop(_, _, _, _)
DeliveryLoop(l, i, member, pickup) ==
  IF i > Len(member.val) \/ l.err # "none" THEN l
  ELSE DeliveryLoop(DeliverySubmember(l, member, member.val[i], pickup), i + 1, member, pickup)

\* One iteration of the loop over the shipment's members.
ShipmentMember(l, member, shipment) ==
  LET key == member.key
  IN IF key = "pickup" THEN PickupLoop(l, 1, member)
     ELSE IF key = "delivery"
       THEN DeliveryLoop(l, 1, member,
                         IF HasMember(shipment, "pickup") THEN Lookup(shipment, "pickup") ELSE <<>>)
     ELSE IF key = "amount"
       THEN LET r == get_amount(shipment, "amount", 1)
            IN IF r.err # "none" THEN Raise(l, r) ELSE [l EXCEPT !.amount = r.val]
     ELSE IF key = "skills" THEN [l EXCEPT !.skills = get_skills(shipment)]
     ELSE IF key = "priority" THEN [l EXCEPT !.priority = get_priority(shipment)]
     ELSE l

RECURSIVE ShipmentLoop(_, _, _)
ShipmentLoop(l, i, shipment) ==
  IF i > Len(shipment) \/ l.err # "none" THEN l
  ELSE ShipmentLoop(ShipmentMember(l, shipment[i], shipment), i + 1, shipment)

ShipmentJob(type, id, location, setup, service, l, tws, description) ==
  [id |-> id, type |-> type, location |-> location, setup |-> setup, service |-> service,
   amount |-> l.amount, skills |-> l.skills, priority |-> l.priority,
   tws |-> tws, description |-> description]

\* The two jobs of one shipment, as given to add_shipment.
get_shipment(shipment, g) ==
  LET l == ShipmentLoop(ShipmentLocals(g), 1, shipment)
      delivery_location == MakeLocation(l.has_delivery_location_index, l.delivery_location_index,
                                        l.has_delivery_location_coords,
                                        l.delivery_location_coordinates)
      pickup_location == MakeLocation(l.has_pickup_location_index, l.pickup_location_index,
                                      l.has_pickup_location_coords,
                                      l.pickup_location_coordinates)
  IN IF l.err # "none" THEN Thrown(l.err, l.msg)
     ELSE IF pickup_location = <<>> \/ delivery_location = <<>>
       THEN Thrown("bad_optional_access", "bad optional access")
     ELSE Returned(
       [pickup |-> ShipmentJob("PICKUP", l.pickup_id, pickup_location[1], l.pickup_setup,
                               l.pickup_service, l, l.pickup_tws, l.pickup_description),
        delivery |-> ShipmentJob("DELIVERY", l.delivery_id, delivery_location[1],
                                 l.delivery_setup, l.delivery_service, l, l.delivery_tws,
                                 l.delivery_description)])

(***************************************************************************)
(* parse: the loops over the elements of "jobs", "shipments", "vehicles".  *)
(* Each adds the elements in order and ends at the first throw: the result *)
(* is the elements added and the exception, if any.                        *)
(***************************************************************************)
\* The amount size parse gives get_job, get_vehicle and get_amount.
ParseAmountSize == 1

RECURSIVE AddEach(_, _, _, _)
AddEach(results, i, added, n) ==
  IF i > n THEN [err |-> "none", added |-> added]
  ELSE IF results[i].err # "none" THEN [err |-> results[i].err, added |-> added]
  ELSE AddEach(results, i + 1, Append(added, results[i].val), n)

AddJobs(jobs, g) ==
  AddEach([i \in 1..Len(jobs) |-> get_job(jobs[i], ParseAmountSize, g)], 1, <<>>, Len(jobs))

AddShipments(shipments, g) ==
  AddEach([i \in 1..Len(shipments) |-> get_shipment(shipments[i], g)], 1, <<>>, Len(shipments))

AddVehicles(vehicles, g) ==
  AddEach([i \in 1..Len(vehicles) |-> get_vehicle(vehicles[i], ParseAmountSize, g)],
          1, <<>>, Len(vehicles))

\* What the loop over the members of "matrices" stores: its three branches
\* ("durations", "distances", "costs") are empty.
StoredMatrices(matrices) == <<>>

\* What the loop over the rows of a top-level "matrix" stores: its body is empty.
StoredMatrix(matrix) == <<>>

(***************************************************************************)
(* The inputs of parse.  Every amount array of a document has amount_len   *)
(* components.                                                             *)
(***************************************************************************)
JobPool(n) ==
  << <<Member("id", 1), Member("location_index", 0), Member("delivery", AmountOf(n, 0))>>,
     <<Member("id", 2), Member("location", <<2, 48>>), Member("pickup", AmountOf(n, 10)),
       Member("setup", 3), Member("service", 4)>>,
     <<Member("location_index", 1)>>,
     <<Member("id", 4), Member("delivery", AmountOf(n, 0))>>,
     <<Member("id", 5), Member("location_index", 2), Member("location", <<3, 49>>),
       Member("skills", <<5>>), Member("priority", 2),
       Member("time_windows", <<<<50, 60>>, <<10, 20>>>>), Member("description", "five")>> >>

ShipmentPool(n) ==
  << <<Member("pickup", <<Member("id", 10), Member("location_index", 0)>>),
       Member("delivery", <<Member("id", 11), Member("location_index", 1)>>),
       Member("amount", AmountOf(n, 0))>>,
     <<Member("amount", AmountOf(n, 0)), Member("skills", <<5>>), Member("priority", 2),
       Member("pickup", <<Member("id", 12), Member("location", <<2, 48>>), Member("setup", 1),
                          Member("service", 2), Member("time_windows", <<<<10, 20>>>>),
                          Member("description", "load")>>),
       Member("delivery", <<Member("id", 13), Member("location", <<3, 49>>),
                            Member("location_index", 1), Member("setup", 3),
                            Member("service", 4), Member("description", "drop")>>)>> >>

VehiclePool(n) ==
  << <<Member("id", 1), Member("start_index", 0), Member("capacity", AmountOf(n, 0))>>,
     <<Member("id", 2), Member("start", <<2, 48>>), Member("end", <<3, 49>>),
       Member("capacity", AmountOf(n, 20)), Member("time_window", <<10, 20>>)>>,
     <<Member("capacity", AmountOf(n, 30)), Member("id", 3), Member("skills", <<5, 7>>),
       Member("profile", "bike")>> >>

MatricesPool ==
  << <<Member("car", <<Member("durations", <<<<0, 5>>, <<6, 0>>>>)>>)>>,
     <<Member("bike", <<Member("durations", <<<<0, 5>>, <<6, 0>>>>),
                        Member("distances", <<<<0, 50>>, <<60, 0>>>>),
                        Member("costs", <<<<0, 7>>, <<8, 0>>>>)>>)>> >>

MatrixPool == << <<<<0, 5>>, <<6, 0>>>>, <<<<0>>>> >>

\* The sequences of up to k elements of the pool.
ArraysOf(pool, k) ==
  {[i \in DOMAIN s |-> pool[s[i]]] : s \in UNION {[1..len -> 1..Len(pool)] : len \in 0..k}}

InitParse ==
  /\ pc = "parse"
  /\ exc = "none"
  /\ amount_len \in 1..MaxAmountLen
  /\ doc = <<>>
  /\ input = NoInput
  /\ IdleVehicle /\ IdleHttp /\ IdleMatrices /\ IdleGeometry /\ IdleCall /\ IdleOrOpt

\* input.set_amount_size(1); input.set_geometry(geometry).
ParseBegin ==
  /\ pc = "parse"
  /\ \E geometry \in BOOLEAN :
       input' = [input EXCEPT !.amount_size = 1, !.geometry = geometry]
  /\ pc' = "fields"
  /\ UNCHANGED <<exc, amount_len, doc, vehicleVars, httpVars, matricesVars, geometryVars, callVars, orOptVars>>

\* The loop over the document's members reads one more member.
ReadField(key, val, r, added_input) ==
  /\ doc' = Append(doc, Member(key, val))
  /\ input' = added_input
  /\ exc' = r.err
  /\ pc' = IF r.err = "none" THEN "fields" ELSE "thrown"
  /\ UNCHANGED <<amount_len, vehicleVars, httpVars, matricesVars, geometryVars, callVars, orOptVars>>

ParseJobs ==
  /\ pc = "fields" /\ Len(doc) < MaxFields
  /\ \E jobs \in ArraysOf(JobPool(amount_len), MaxItems), g \in Indeterminate :
       LET r == AddJobs(jobs, g)
       IN ReadField("jobs", jobs, r, [input EXCEPT !.jobs = input.jobs \o r.added])

ParseShipments ==
  /\ pc = "fields" /\ Len(doc) < MaxFields
  /\ \E shipments \in ArraysOf(ShipmentPool(amount_len), MaxItems), g \in Indeterminate :
       LET r == AddShipments(shipments, g)
       IN ReadField("shipments", shipments, r,
                    [input EXCEPT !.shipments = input.shipments \o r.added])

ParseVehicles ==
  /\ pc = "fields" /\ Len(doc) < MaxFields
  /\ \E vehicles \in ArraysOf(VehiclePool(amount_len), MaxItems), g \in Indeterminate :
       LET r == AddVehicles(vehicles, g)
       IN ReadField("vehicles", vehicles, r,
                    [input EXCEPT !.vehicles = input.vehicles \o r.added])

ParseMatrices ==
  /\ pc = "fields" /\ Len(doc) < MaxFields
  /\ \E k \in 1..Len(MatricesPool) :
       ReadField("matrices", MatricesPool[k], [err |-> "none"],
                 [input EXCEPT !.matrices = input.matrices \o StoredMatrices(MatricesPool[k])])

ParseMatrix ==
  /\ pc = "fields" /\ Len(doc) < MaxFields
  /\ \E k \in 1..Len(MatrixPool) :
       ReadField("matrix", MatrixPool[k], [err |-> "none"],
                 [input EXCEPT !.matrices = input.matrices \o StoredMatrix(MatrixPool[k])])

\* The document has no more members: the loop ends, and parse calls exit(0).
ParseExit ==
  /\ pc = "fields"
  /\ pc' = "exited"
  /\ UNCHANGED <<exc, parseVars, vehicleVars, httpVars, matricesVars, geometryVars, callVars, orOptVars>>

NextParse ==
  \/ ParseBegin
  \/ ParseJobs
  \/ ParseShipments
  \/ ParseVehicles
  \/ ParseMatrices
  \/ ParseMatrix
  \/ ParseExit

SpecParse == InitParse /\ [][NextParse]_vars

ParseEnded == pc \in {"returned", "exited", "thrown"}

\* The elements of the arrays under key in the document, in document order.
RECURSIVE ElementsUnder(_, _)
ElementsUnder(key, i) ==
  IF i > Len(doc) THEN <<>>
  ELSE (IF doc[i].key = key THEN doc[i].val ELSE <<>>) \o ElementsUnder(key, i + 1)

DocJobs == ElementsUnder("jobs", 1)
DocShipments == ElementsUnder("shipments", 1)
DocVehicles == ElementsUnder("vehicles", 1)

\* A job-shaped object with its required members: an id and a location.
TaskOk(o) == HasMember(o, "id") /\ (HasMember(o, "location") \/ HasMember(o, "location_index"))

ShipmentOk(o) ==
  /\ HasMember(o, "pickup") /\ TaskOk(Lookup(o, "pickup"))
  /\ HasMember(o, "delivery") /\ TaskOk(Lookup(o, "delivery"))

(***************************************************************************)
(* C1: the amount length is the length of the first vehicle's capacity:    *)
(* a document of vehicles and well-formed jobs whose amount arrays all     *)
(* have n components is accepted, for every n >= 1, and yields amounts of  *)
(* n components.                                                           *)
(***************************************************************************)
C1_AmountLengthFromFirstVehicle ==
  ( /\ ParseEnded
    /\ DocVehicles # <<>>
    /\ DocShipments = <<>>
    /\ \A i \in 1..Len(DocJobs) : TaskOk(DocJobs[i]) )
  => /\ exc = "none"
     /\ input.amount_size = amount_len
     /\ Len(input.vehicles) = Len(DocVehicles)
     /\ \A i \in 1..Len(input.vehicles) : Len(input.vehicles[i].capacity) = amount_len
     /\ \A i \in 1..Len(input.jobs) :
          Len(input.jobs[i].delivery) = amount_len /\ Len(input.jobs[i].pickup) = amount_len

(***************************************************************************)
(* C2: a job without an id, and a job with neither location nor            *)
(* location_index, is rejected with an InputError: no other failure, and   *)
(* the job is not built.                                                   *)
(***************************************************************************)
FirstBadJob == CHOOSE i \in 1..Len(DocJobs) :
                 ~TaskOk(DocJobs[i]) /\ \A j \in 1..(i - 1) : TaskOk(DocJobs[j])

C2_MissingFieldRejected ==
  ( /\ ParseEnded
    /\ amount_len = ParseAmountSize
    /\ Len(doc) = 1 /\ doc[1].key = "jobs"
    /\ \E i \in 1..Len(DocJobs) : ~TaskOk(DocJobs[i]) )
  => /\ pc = "thrown"
     /\ exc = "InputException"
     /\ Len(input.jobs) = FirstBadJob - 1

(***************************************************************************)
(* C3: for every shipment whose pickup and delivery carry an id and a      *)
(* location, add_shipment is called once with a PICKUP and a DELIVERY job  *)
(* that have the id, location, setup, service, time windows and            *)
(* description of their own sub-object and the shipment's amount, skills   *)
(* and priority.                                                           *)
(***************************************************************************)
ExpectedShipmentJob(type, o, shipment) ==
  [id |-> Lookup(o, "id"),
   type |-> type,
   location |-> ExpectedLocation(o, "location_index", "location")[1],
   setup |-> get_duration(o, "setup"),
   service |-> get_duration(o, "service"),
   amount |-> IF HasMember(shipment, "amount") THEN Lookup(shipment, "amount") ELSE <<0>>,
   skills |-> get_skills(shipment),
   priority |-> get_priority(shipment),
   tws |-> IF HasMember(o, "time_windows") THEN get_time_windows(o).val ELSE <<TimeWindowDefault>>,
   description |-> get_string(o, "description")]

C3_ShipmentJobsBuilt ==
  ( /\ ParseEnded
    /\ amount_len = ParseAmountSize
    /\ Len(doc) = 1 /\ doc[1].key = "shipments"
    /\ \A i \in 1..Len(DocShipments) : ShipmentOk(DocShipments[i]) )
  => /\ exc = "none"
     /\ Len(input.shipments) = Len(DocShipments)
     /\ \A i \in 1..Len(input.shipments) :
          /\ input.shipments[i].pickup =
               ExpectedShipmentJob("PICKUP", Lookup(DocShipments[i], "pickup"), DocShipments[i])
          /\ input.shipments[i].delivery =
               ExpectedShipmentJob("DELIVERY", Lookup(DocShipments[i], "delivery"), DocShipments[i])

(***************************************************************************)
(* C4: after parse the Input holds every user-supplied matrix: for each    *)
(* profile of "matrices" its durations, distances and costs, and a         *)
(* top-level "matrix" as the durations of the default profile.             *)
(***************************************************************************)
Stored == {input.matrices[i] : i \in 1..Len(input.matrices)}

C4_MatricesStored ==
  (ParseEnded /\ exc = "none") =>
    \A i \in 1..Len(doc) :
      /\ doc[i].key = "matrices" =>
           \A p \in 1..Len(doc[i].val) : \A k \in 1..Len(doc[i].val[p].val) :
             [profile |-> doc[i].val[p].key,
              kind |-> doc[i].val[p].val[k].key,
              matrix |-> doc[i].val[p].val[k].val] \in Stored
      /\ doc[i].key = "matrix" =>
           [profile |-> DEFAULT_PROFILE, kind |-> "durations", matrix |-> doc[i].val] \in Stored

(***************************************************************************)
(* C5: after a parse of a well-formed input every job and every vehicle    *)
(* has been added in document order, and parse returns to its caller: it   *)
(* does not end the process.                                               *)
(***************************************************************************)
C5_ParseReturns ==
  ( /\ ParseEnded
    /\ amount_len = ParseAmountSize
    /\ DocJobs # <<>> /\ DocVehicles # <<>> /\ DocShipments = <<>>
    /\ \A i \in 1..Len(DocJobs) : TaskOk(DocJobs[i])
    /\ \A i \in 1..Len(DocVehicles) : HasMember(DocVehicles[i], "id") )
  => /\ pc = "returned"
     /\ [i \in 1..Len(input.jobs) |-> input.jobs[i].id]
          = [i \in 1..Len(DocJobs) |-> Lookup(DocJobs[i], "id")]
     /\ [i \in 1..Len(input.vehicles) |-> input.vehicles[i].id]
          = [i \in 1..Len(DocVehicles) |-> Lookup(DocVehicles[i], "id")]

(***************************************************************************)
(* HttpWrapper::send_then_receive and ssl_send_then_receive.  A response   *)
(* is the sequence of its characters; Chars are the characters that matter *)
(* to the removal of the headers.                                          *)
(***************************************************************************)
HTTPS_PORT == "443"

Chars == {"{", "}", "h"}

\* What a network operation reports: success, or a failure (asio throws
\* std::system_error for it).
Reports == {"ok", "fails"}

\* What read_some sets error to.
ReadErrors == {"none", "eof", "connection_reset"}

\* A handler that catches nothing: the std::system_error leaves the function.
CatchNothing(thrown) == thrown

\* The handler of the try block: catch (std::system_error&).
CatchSystemError(thrown) == IF thrown = "system_error" THEN "RoutingException" ELSE thrown

\* A network operation of the try block failed: std::system_error is thrown
\* and meets the handler.
NetworkFailure(operation) ==
  /\ failure' = operation
  /\ exc' = CatchSystemError("system_error")
  /\ pc' = "thrown"

InitHttp ==
  /\ pc = "run_query"
  /\ exc = "none"
  /\ server_port \in {HTTPS_PORT, "5000"}
  /\ response = <<>>
  /\ error = "none"
  /\ sent = 0
  /\ failure = "none"
  /\ json_string = <<>>
  /\ amount_len = 0
  /\ IdleParse /\ IdleVehicle /\ IdleMatrices /\ IdleGeometry /\ IdleCall /\ IdleOrOpt

Ssl == server_port = HTTPS_PORT

\* run_query: ssl_send_then_receive on the HTTPS port, send_then_receive else.
RunQuery ==
  /\ pc = "run_query"
  /\ pc' = "resolve"
  /\ UNCHANGED <<exc, parseVars, vehicleVars, httpVars, matricesVars, geometryVars, callVars, orOptVars>>

\* r.resolve(q)
Resolve ==
  /\ pc = "resolve"
  /\ \E report \in Reports :
       IF report = "ok"
       THEN pc' = "connect" /\ UNCHANGED <<exc, failure>>
       ELSE NetworkFailure("resolve")
  /\ UNCHANGED <<parseVars, vehicleVars, matricesVars, geometryVars, callVars, orOptVars, server_port, response, error, sent, json_string>>

\* asio::connect
Connect ==
  /\ pc = "connect"
  /\ \E report \in Reports :
       IF report = "ok"
       THEN pc' = (IF Ssl THEN "handshake" ELSE "write") /\ UNCHANGED <<exc, failure>>
       ELSE NetworkFailure("connect")
  /\ UNCHANGED <<parseVars, vehicleVars, matricesVars, geometryVars, callVars, orOptVars, server_port, response, error, sent, json_string>>

\* ssock.handshake, of ssl_send_then_receive only
Handshake ==
  /\ pc = "handshake"
  /\ \E report \in Reports :
       IF report = "ok"
       THEN pc' = "write" /\ UNCHANGED <<exc, failure>>
       ELSE NetworkFailure("handshake")
  /\ UNCHANGED <<parseVars, vehicleVars, matricesVars, geometryVars, callVars, orOptVars, server_port, response, error, sent, json_string>>

\* asio::write(s, asio::buffer(query))
Write ==
  /\ pc = "write"
  /\ sent' = sent + 1
  /\ \E report \in Reports :
       IF report = "ok"
       THEN pc' = "read" /\ UNCHANGED <<exc, failure>>
       ELSE NetworkFailure("write")
  /\ UNCHANGED <<parseVars, vehicleVars, matricesVars, geometryVars, callVars, orOptVars, server_port, response, error, json_string>>

\* Whether the read loop leaves on this error_code: break on end-of-file,
\* throw on any other error.
LoopEnds(ec) == ec # "none"

\* One iteration of the read loop: read_some gives some characters with no
\* error, or none with an error; they are appended to response.
ReadSome ==
  /\ pc = "read"
  /\ \E ec \in ReadErrors, chunk \in {<<>>} \cup {<<c>> : c \in Chars} :
       /\ (ec = "none") = (chunk # <<>>)
       /\ Len(response) + Len(chunk) <= MaxResponse
       /\ error' = ec
       /\ response' = response \o chunk
       /\ IF ~LoopEnds(ec) THEN pc' = "read" /\ UNCHANGED <<exc, failure>>
          ELSE IF ec = "eof" THEN pc' = "headers" /\ UNCHANGED <<exc, failure>>
          ELSE NetworkFailure("read")
  /\ UNCHANGED <<parseVars, vehicleVars, matricesVars, geometryVars, callVars, orOptVars, server_port, sent, json_string>>

\* std::string::npos: no position.
npos == -1

\* response.find(c) and response.rfind(c): positions count from 0.
Find(str, c) ==
  IF \E i \in 1..Len(str) : str[i] = c
  THEN (CHOOSE i \in 1..Len(str) : str[i] = c /\ \A j \in 1..(i - 1) : str[j] # c) - 1
  ELSE npos

RFind(str, c) ==
  IF \E i \in 1..Len(str) : str[i] = c
  THEN (CHOOSE i \in 1..Len(str) : str[i] = c /\ \A j \in (i + 1)..Len(str) : str[j] # c) - 1
  ELSE npos

\* std::size_t arithmetic wraps.  The modulus stands for 2^64, which is
\* beyond the integers of the checker: what matters of a wrapped count is
\* that it exceeds the length of every string.
SizeModulus == 2^30

SizeT(x) == x % SizeModulus

\* str.substr(pos, count), for pos <= str.size().
Substr(str, pos, count) ==
  LET last == IF pos + count > Len(str) THEN Len(str) ELSE pos + count
  IN [k \in 1..(last - pos) |-> str[pos + k]]

\* "Removing headers."
RemoveHeaders ==
  /\ pc = "headers"
  /\ LET start == Find(response, "{")
         end == RFind(response, "}")
     IN IF start = npos \/ end = npos
        THEN /\ exc' = "RoutingException"
             /\ pc' = "thrown"
             /\ UNCHANGED json_string
        ELSE /\ json_string' = Substr(response, start, SizeT(end - start + 1))
             /\ pc' = "returned"
             /\ UNCHANGED exc
  /\ UNCHANGED <<parseVars, vehicleVars, matricesVars, geometryVars, callVars, orOptVars, server_port, response, error, sent, failure>>

NextHttp ==
  \/ RunQuery
  \/ Resolve
  \/ Connect
  \/ Handshake
  \/ Write
  \/ ReadSome
  \/ RemoveHeaders

SpecHttp == InitHttp /\ [][NextHttp]_vars

(***************************************************************************)
(* C8: every failure to reach the back-end (resolve, connect, TLS          *)
(* handshake, write, or a read error other than end-of-file) leaves        *)
(* send_then_receive / ssl_send_then_receive as a RoutingException after   *)
(* a single attempt: the query is written at most once, no                 *)
(* std::system_error leaves the function, and the read loop ends exactly   *)
(* when end-of-file or an error is reported.                               *)
(***************************************************************************)
C8_FailureSurfacedOnce ==
  /\ sent <= 1
  /\ exc # "system_error"
  /\ failure # "none" => pc = "thrown" /\ exc = "RoutingException"
  /\ pc = "read" => error = "none"
  /\ (pc \in {"headers", "returned"} \/ failure = "read") => error # "none"
  /\ pc \in {"headers", "returned"} => error = "eof" /\ failure = "none"
  /\ failure = "handshake" => Ssl

\* A read error other than end-of-file, after the query was written and a
\* part of the response received.
C8_Witness ==
  /\ failure = "read" /\ error = "connection_reset"
  /\ pc = "thrown" /\ exc = "RoutingException"
  /\ sent = 1 /\ response # <<>>

(***************************************************************************)
(* HttpWrapper::get_matrices.  A matrix of a response is the sequence of   *)
(* its rows, a row the sequence of its cells, a cell <<>> for null and     *)
(* <<t>> for the number t/10.  Rows, columns and vector elements count     *)
(* from 0 as in the code; a TLA+ sequence holds element k at k + 1.        *)
(***************************************************************************)
\* utils::round<T>(double): the nearest integer, halves up.
Round(tenths) == (tenths + 5) \div 10

\* OsrmRoutedWrapper / OrsWrapper: duration_value_is_null, distance_value_is_null.
value_is_null(matrix_entry) == matrix_entry = <<>>

\* OsrmRoutedWrapper / OrsWrapper: get_duration_value, get_distance_value.
get_value(matrix_entry) == Round(matrix_entry[1])

\* What an access beyond the end of a vector does: the process is killed,
\* or the access lands outside the vector and the function goes on.
UndefinedOutcomes == {"crash", "stray"}

Beyond(st, name, i, j, ub) ==
  [st EXCEPT !.oob = @ \cup {<<name, i, j>>},
             !.stop = IF ub = "crash" THEN "crash" ELSE @]

\* ++nb_unfound_from_loc[i]
IncrementFrom(st, i, n, ub) ==
  IF i < n THEN [st EXCEPT !.from[i + 1] = @ + 1]
  ELSE Beyond(st, "nb_unfound_from_loc", i, 0, ub)

\* ++nb_unfound_to_loc[j]
IncrementTo(st, j, n, ub) ==
  IF j < n THEN [st EXCEPT !.to[j + 1] = @ + 1]
  ELSE Beyond(st, "nb_unfound_to_loc", j, 0, ub)

\* m.durations[i][j] = ... (resp. m.distances)
WriteCell(st, kind, i, j, value, n, ub) ==
  IF i < n /\ j < n
  THEN [st EXCEPT !.cells[i + 1][j + 1] = value, !.written = @ \cup {<<kind, i, j>>}]
  ELSE Beyond(st, kind, i, j, ub)

\* The body of the loop over the values of a line.
ReadValue(st, kind, value, i, j, n, ub) ==
  IF value_is_null(value)
  THEN LET counted == IncrementFrom(st, i, n, ub)
       IN IF counted.stop # "none" THEN counted ELSE IncrementTo(counted, j, n, ub)
  ELSE WriteCell(st, kind, i, j, get_value(value), n, ub)

RECURSIVE ReadLine(_, _, _, _, _, _, _)
ReadLine(st, kind, line, i, j, n, ub) ==
  IF j >= Len(line) \/ st.stop # "none" THEN st
  ELSE ReadLine(ReadValue(st, kind, line[j + 1], i, j, n, ub), kind, line, i, j + 1, n, ub)

\* assert(condition): checked in a debug build only.
AssertThat(st, condition, asserts) ==
  IF asserts /\ st.stop = "none" /\ ~condition THEN [st EXCEPT !.stop = "assert"] ELSE st

RECURSIVE ReadLines(_, _, _, _, _, _, _)
ReadLines(st, kind, array, i, n, ub, asserts) ==
  IF st.stop # "none" THEN st
  ELSE IF i >= Len(array) THEN AssertThat(st, i = n, asserts)
  ELSE ReadLines(AssertThat(ReadLine(st, kind, array[i + 1], i, 0, n, ub),
                            Len(array[i + 1]) = n, asserts),
                 kind, array, i + 1, n, ub, asserts)

\* Wrapper::check_unfound: a RoutingException when a location has an unfound route.
check_unfound(from, to) ==
  IF \E k \in 1..Len(from) : from[k] > 0 \/ to[k] > 0
  THEN Thrown("RoutingException", "Unfound route(s)")
  ELSE Returned(<<>>)

\* A check_response that accepts every response.
CheckNothing(result) == [err |-> "none", msg |-> "", asserted |-> FALSE]

\* snapping_error_base, line 74.
snapping_error_base == "Could not find a matching segment for coordinate "

\* The texts that follow snapping_error_base in the messages of the model:
\* the numbers of the locations and of two positions after them, no text,
\* and a text that is no number.
SnappingSuffixes == {ToString(k) : k \in 0..(MaxLocs + 1)} \cup {"", "x"}

\* message.starts_with(base), for the messages of the model.
starts_with(message, base) == \E rest \in SnappingSuffixes : message = base \o rest

\* message.substr(base.size(), message.size() - base.size())
AfterBase(message, base) == CHOOSE rest \in SnappingSuffixes : message = base \o rest

\* std::stoul(str): the number str holds, std::invalid_argument when str
\* holds no number.
stoul(str) ==
  IF \E k \in 0..(MaxLocs + 1) : str = ToString(k)
  THEN Returned(CHOOSE k \in 0..(MaxLocs + 1) : str = ToString(k))
  ELSE Thrown("invalid_argument", "stoul")

\* OsrmRoutedWrapper::check_response(json_result, locs, service).  A
\* location is <<lon, lat>>.  locs[error_loc] is unchecked: beyond the end
\* of locs the read either stops the program (ub = "crash") or gives the
\* value found there (garbage).
OsrmCheckResponse(result, locations, ub, garbage) ==
  LET code == IF HasMember(result, "code") THEN Lookup(result, "code") ELSE ""
      message == IF HasMember(result, "message") THEN Lookup(result, "message") ELSE ""
      asserted == ~HasMember(result, "code")
  IN IF code = "Ok" THEN [err |-> "none", msg |-> "", asserted |-> asserted, oob |-> FALSE]
     ELSE IF code = "NoSegment" /\ starts_with(message, snapping_error_base)
     THEN LET error_loc == stoul(AfterBase(message, snapping_error_base))
          IN IF error_loc.err # "none"
             THEN [err |-> error_loc.err, msg |-> error_loc.msg, asserted |-> asserted, oob |-> FALSE]
             ELSE IF error_loc.val >= Len(locations) /\ ub = "crash"
             THEN [err |-> "crash", msg |-> "", asserted |-> asserted, oob |-> TRUE]
             ELSE LET beyond == error_loc.val >= Len(locations)
                      lon == IF beyond THEN garbage ELSE locations[error_loc.val + 1][1]
                      lat == IF beyond THEN garbage ELSE locations[error_loc.val + 1][2]
                  IN [err |-> "RoutingException",
                      msg |-> "Could not find route near location ["
                                \o ToString(lon) \o "," \o ToString(lat) \o "]",
                      asserted |-> asserted, oob |-> beyond]
     ELSE [err |-> "RoutingException", msg |-> message, asserted |-> asserted, oob |-> FALSE]

\* OsrmRoutedWrapper::check_response, for the codes of StatusSet: none of
\* them is NoSegment, and locs is not read.
osrm_check_response(result) ==
  LET r == OsrmCheckResponse(result, <<>>, "crash", 0)
  IN [err |-> r.err, msg |-> r.msg, asserted |-> r.asserted]

\* OrsWrapper::check_response.
ors_check_response(result) ==
  IF HasMember(result, "error")
  THEN [err |-> "RoutingException", msg |-> Lookup(result, "error").message, asserted |-> FALSE]
  ELSE [err |-> "none", msg |-> "", asserted |-> FALSE]

check_response(result) ==
  IF wrapper = "osrm" THEN osrm_check_response(result) ELSE ors_check_response(result)

(***************************************************************************)
(* The responses of the back-end.                                          *)
(***************************************************************************)
StatusSet ==
  { <<>>,
    <<Member("code", "Ok")>>,
    <<Member("code", "InvalidQuery"), Member("message", "Query string malformed")>>,
    <<Member("error", [message |-> "Parameter value out of range"])>> }

\* The number in the cell (i, j): distinct in every cell, with a fraction
\* that rounds down in durations and up in distances.
CellNumber(kind, i, j) ==
  IF kind = "durations" THEN <<10 * (4 * i + j) + 14>> ELSE <<10 * (4 * i + j) + 1005>>

\* The lengths of the rows of a response's matrix: the n rows of n cells
\* asked for, or one row or one cell too few or too many.
RowLengths(n) ==
  { [i \in 1..n |-> n],
    [i \in 1..n |-> IF i = n THEN n - 1 ELSE n],
    [i \in 1..n |-> IF i = n THEN n + 1 ELSE n],
    [i \in 1..(n - 1) |-> n],
    [i \in 1..(n + 1) |-> n] }

Positions(lengths) == {<<i, j>> \in (0..Len(lengths)) \X (0..(Len(lengths) + 1)) :
                         i < Len(lengths) /\ j < lengths[i + 1]}

ResponseMatrices(kind, n) ==
  { [i \in 1..Len(lengths) |->
       [j \in 1..lengths[i] |->
          IF <<i - 1, j - 1>> \in nulls THEN <<>> ELSE CellNumber(kind, i - 1, j - 1)]] :
      <<lengths, nulls>> \in
        {<<l, s>> \in RowLengths(n) \X SUBSET ((0..n) \X (0..n)) :
           s \subseteq Positions(l) /\ Cardinality(s) <= MaxNull} }

Zeros(n) == [k \in 1..n |-> 0]

\* Matrices m(m_size): two m_size x m_size matrices.
Matrices(n) == [durations |-> [i \in 1..n |-> Zeros(n)], distances |-> [i \in 1..n |-> Zeros(n)]]

InitMatrices ==
  /\ pc = "get_matrices" /\ exc = "none"
  /\ amount_len = 0 /\ IdleParse /\ IdleVehicle /\ IdleHttp /\ IdleGeometry /\ IdleCall /\ IdleOrOpt
  /\ build \in {"debug", "release"}
  /\ wrapper \in {"osrm", "ors"}
  /\ locs \in {[k \in 1..n |-> <<k, 40 + k>>] : n \in 1..MaxLocs}
  /\ json_result = <<>> /\ m = <<>>
  /\ nb_unfound_from_loc = <<>> /\ nb_unfound_to_loc = <<>>
  /\ durations_matrix = FALSE /\ distances_matrix = FALSE
  /\ written = {} /\ oob = {} /\ calls = <<>> /\ what = ""

\* Lines 157-158: the query is built and run; run_query throws a
\* RoutingException or returns the text of a response.
GetMatricesRunQuery ==
  /\ pc = "get_matrices"
  /\ calls' = Append(calls, "run_query")
  /\ \E answered \in BOOLEAN :
       IF answered
       THEN pc' = "check_response" /\ UNCHANGED <<exc, what>>
       ELSE pc' = "thrown" /\ exc' = "RoutingException" /\ what' = "Failed to connect"
  /\ UNCHANGED <<parseVars, vehicleVars, httpVars, geometryVars, callVars, orOptVars, build, wrapper, locs, json_result, m,
                 nb_unfound_from_loc, nb_unfound_to_loc, durations_matrix,
                 distances_matrix, written, oob>>

\* Lines 161-175: the response is parsed and checked, then the counters
\* and the matrices are built with m_size = locs.size().
GetMatricesCheckResponse ==
  /\ pc = "check_response"
  /\ calls' = Append(calls, "check_response")
  /\ \E status \in StatusSet :
       LET r == check_response(status) IN
       /\ json_result' = status
       /\ IF r.asserted /\ build = "debug"
          THEN /\ pc' = "aborted"
               /\ UNCHANGED <<exc, what, m, nb_unfound_from_loc, nb_unfound_to_loc>>
          ELSE IF r.err # "none"
          THEN /\ pc' = "thrown" /\ exc' = r.err /\ what' = r.msg
               /\ UNCHANGED <<m, nb_unfound_from_loc, nb_unfound_to_loc>>
          ELSE /\ pc' = "fields"
               /\ nb_unfound_from_loc' = Zeros(Len(locs))
               /\ nb_unfound_to_loc' = Zeros(Len(locs))
               /\ m' = Matrices(Len(locs))
               /\ UNCHANGED <<exc, what>>
  /\ UNCHANGED <<parseVars, vehicleVars, httpVars, geometryVars, callVars, orOptVars, build, wrapper, locs,
                 durations_matrix, distances_matrix, written, oob>>

\* What the loops of lines 180-195 (resp. 198-213) leave behind.
ReadMatrix(kind, array, ub) ==
  ReadLines([cells |-> m[kind], from |-> nb_unfound_from_loc, to |-> nb_unfound_to_loc,
             written |-> written, oob |-> oob, stop |-> "none"],
            kind, array, 0, Len(locs), ub, build = "debug")

\* Lines 178-214: the next field of the response is the durations (resp.
\* distances) key.
ReadMatrixField(kind) ==
  /\ pc = "fields"
  /\ ~HasMember(json_result, kind)
  /\ \E array \in ResponseMatrices(kind, Len(locs)), ub \in UndefinedOutcomes :
       LET st == ReadMatrix(kind, array, ub) IN
       /\ json_result' = Append(json_result, Member(kind, array))
       /\ m' = [m EXCEPT ![kind] = st.cells]
       /\ nb_unfound_from_loc' = st.from
       /\ nb_unfound_to_loc' = st.to
       /\ written' = st.written
       /\ oob' = st.oob
       /\ pc' = CASE st.stop = "assert" -> "aborted"
                  [] st.stop = "crash" -> "crashed"
                  [] OTHER -> "fields"
  /\ UNCHANGED <<parseVars, vehicleVars, httpVars, geometryVars, callVars, orOptVars, exc, build, wrapper, locs, calls, what>>

ReadDurations ==
  /\ ReadMatrixField("durations")
  /\ durations_matrix' = TRUE
  /\ UNCHANGED distances_matrix

ReadDistances ==
  /\ ReadMatrixField("distances")
  /\ distances_matrix' = TRUE
  /\ UNCHANGED durations_matrix

\* Lines 177-215: a field with another key is passed over.
SkipField ==
  /\ pc = "fields"
  /\ ~HasMember(json_result, "sources")
  /\ json_result' = Append(json_result, Member("sources", <<>>))
  /\ UNCHANGED <<parseVars, vehicleVars, httpVars, geometryVars, callVars, orOptVars, pc, exc, build, wrapper, locs, m,
                 nb_unfound_from_loc, nb_unfound_to_loc, durations_matrix,
                 distances_matrix, written, oob, calls, what>>

\* Lines 216-221: the response has no more fields.
EndOfFields ==
  /\ pc = "fields"
  /\ IF ~durations_matrix
     THEN pc' = "thrown" /\ exc' = "RoutingException" /\ what' = "Missing durations."
     ELSE IF ~distances_matrix
     THEN pc' = "thrown" /\ exc' = "RoutingException" /\ what' = "Missing distances."
     ELSE pc' = "check_unfound" /\ UNCHANGED <<exc, what>>
  /\ UNCHANGED <<parseVars, vehicleVars, httpVars, geometryVars, callVars, orOptVars, build, wrapper, locs, json_result, m,
                 nb_unfound_from_loc, nb_unfound_to_loc, durations_matrix,
                 distances_matrix, written, oob, calls>>

\* Line 223.
CheckUnfound ==
  /\ pc = "check_unfound"
  /\ calls' = Append(calls, "check_unfound")
  /\ LET r == check_unfound(nb_unfound_from_loc, nb_unfound_to_loc) IN
       IF r.err # "none"
       THEN pc' = "thrown" /\ exc' = r.err /\ what' = r.msg
       ELSE pc' = "return" /\ UNCHANGED <<exc, what>>
  /\ UNCHANGED <<parseVars, vehicleVars, httpVars, geometryVars, callVars, orOptVars, build, wrapper, locs, json_result, m,
                 nb_unfound_from_loc, nb_unfound_to_loc, durations_matrix,
                 distances_matrix, written, oob>>

\* Line 224.
ReturnMatrices ==
  /\ pc = "return"
  /\ pc' = "returned"
  /\ UNCHANGED <<parseVars, vehicleVars, httpVars, matricesVars, geometryVars, callVars, orOptVars, exc>>

NextMatrices ==
  \/ GetMatricesRunQuery
  \/ GetMatricesCheckResponse
  \/ ReadDurations
  \/ ReadDistances
  \/ SkipField
  \/ EndOfFields
  \/ CheckUnfound
  \/ ReturnMatrices

SpecMatrices == InitMatrices /\ [][NextMatrices]_vars

\* The cells (i, j) of the response's array under kind, null or not.
CellsOf(kind, null) ==
  IF ~HasMember(json_result, kind) THEN {}
  ELSE LET array == Lookup(json_result, kind)
       IN {<<i, j>> \in (0..(MaxLocs + 1)) \X (0..(MaxLocs + 1)) :
             /\ i < Len(array) /\ j < Len(array[i + 1])
             /\ value_is_null(array[i + 1][j + 1]) = null}

\* How many null cells the response has in row i, over both arrays.
NullsInRow(i) ==
  Cardinality({c \in CellsOf("durations", TRUE) : c[1] = i})
    + Cardinality({c \in CellsOf("distances", TRUE) : c[1] = i})

\* How many null cells the response has in column j, over both arrays.
NullsInColumn(j) ==
  Cardinality({c \in CellsOf("durations", TRUE) : c[2] = j})
    + Cardinality({c \in CellsOf("distances", TRUE) : c[2] = j})

\* C9: in get_matrices, every cell (i, j) that is null in the response's
\* durations or distances array is counted for origin i and for destination
\* j and its cell of m is left unwritten, so that check_unfound is reached
\* with the complete, non-zero counts of that cell's row and column, after
\* both arrays were read and before the Matrices are returned.
C9_NullCellsRecorded ==
  /\ pc = "check_unfound" =>
       /\ durations_matrix /\ distances_matrix
       /\ \A kind \in {"durations", "distances"} : \A c \in CellsOf(kind, TRUE) :
            /\ c[1] < Len(locs) /\ c[2] < Len(locs)
            /\ nb_unfound_from_loc[c[1] + 1] > 0
            /\ nb_unfound_to_loc[c[2] + 1] > 0
            /\ nb_unfound_from_loc[c[1] + 1] = NullsInRow(c[1])
            /\ nb_unfound_to_loc[c[2] + 1] = NullsInColumn(c[2])
            /\ <<kind, c[1], c[2]>> \notin written
  /\ pc = "returned" =>
       /\ calls = <<"run_query", "check_response", "check_unfound">>
       /\ CellsOf("durations", TRUE) \cup CellsOf("distances", TRUE) = {}

\* C10: get_matrices(locs) returns square matrices of size locs.size() that
\* hold every non-null cell (i, j) of the response's durations (resp.
\* distances) array at m.durations[i][j] (resp. m.distances[i][j]), in
\* either order of the two keys; a response without one of the keys gives a
\* RoutingException naming that key and nothing is returned; check_response
\* runs before any cell is read.
C10_MatricesFilled ==
  /\ pc = "returned" =>
       /\ HasMember(json_result, "durations") /\ HasMember(json_result, "distances")
       /\ \A kind \in {"durations", "distances"} :
            /\ Len(m[kind]) = Len(locs)
            /\ \A i \in 1..Len(locs) : Len(m[kind][i]) = Len(locs)
            /\ \A c \in CellsOf(kind, FALSE) :
                 /\ c[1] < Len(locs) /\ c[2] < Len(locs)
                 /\ m[kind][c[1] + 1][c[2] + 1]
                      = Round(Lookup(json_result, kind)[c[1] + 1][c[2] + 1][1])
  /\ (pc \in {"check_unfound", "return"} \/ "check_unfound" \in {calls[k] : k \in 1..Len(calls)})
       => HasMember(json_result, "durations") /\ HasMember(json_result, "distances")
  /\ what = "Missing durations." => pc = "thrown" /\ ~HasMember(json_result, "durations")
  /\ what = "Missing distances." => pc = "thrown" /\ ~HasMember(json_result, "distances")
  /\ (written # {} \/ oob # {} \/ durations_matrix \/ distances_matrix)
       => "check_response" \in {calls[k] : k \in 1..Len(calls)}

(***************************************************************************)
(* HttpWrapper::add_geometry.  A step of a route is its step_type and its  *)
(* optional location: a break has none, every other step has one.         *)
(***************************************************************************)
\* The routes given to add_geometry: an optional start, jobs and breaks with
\* at least one job, an optional end.  The step at position k is at the
\* coordinates <<k, 40 + k>>.
StepAt(type, k) ==
  [step_type |-> type, location |-> IF type = "BREAK" THEN <<>> ELSE <<<<k, 40 + k>>>>]

Routes ==
  { [steps |-> [k \in 1..Len(types) |-> StepAt(types[k], k)], geometry |-> ""] :
      types \in
        { front \o middle \o back :
            front \in {<<>>, <<"START">>},
            back \in {<<>>, <<"END">>},
            middle \in { t \in UNION {[1..n -> {"JOB", "BREAK"}] : n \in 1..MaxSteps} :
                           \E k \in DOMAIN t : t[k] = "JOB" } } }

\* Lines 230-238: the loop over route.steps that fills non_break_locations.
RECURSIVE NonBreakLocations(_, _, _)
NonBreakLocations(steps, k, non_break_locations) ==
  IF k > Len(steps) THEN non_break_locations
  ELSE NonBreakLocations(steps, k + 1,
         IF steps[k].step_type # "BREAK"
         THEN Append(non_break_locations, steps[k].location[1])
         ELSE non_break_locations)

\* The locations of a query as build_query writes them: each location
\* followed by a separator, the last separator then removed by pop_back
\* (the list is not empty).
RECURSIVE JoinLocations(_, _, _, _, _)
JoinLocations(locations, k, open, close, separator) ==
  LET location == open \o ToString(locations[k][1]) \o "," \o ToString(locations[k][2]) \o close
  IN IF k = Len(locations) THEN location
     ELSE location \o separator \o JoinLocations(locations, k + 1, open, close, separator)

\* OsrmRoutedWrapper::build_query, up to the radiuses and the HTTP headers.
OsrmBuildQuery(locations, service) ==
  "GET /" \o service \o "/v1/car/" \o JoinLocations(locations, 1, "", "", ";")
    \o (IF service = "route" THEN "?alternatives=false" ELSE "?annotations=duration,distance")

\* OrsWrapper::build_query, up to the HTTP headers.
OrsBuildQuery(locations, service) ==
  "POST /" \o service \o "/car "
    \o "{" \o (IF service = "directions" THEN "coordinates" ELSE "locations") \o ":["
    \o JoinLocations(locations, 1, "[", "]", ",") \o "]"
    \o (IF service = "directions" THEN ",geometry_simplify" ELSE ",metrics") \o "}"

\* _route_service
RouteService == IF wrapper = "osrm" THEN "route" ELSE "directions"

build_query(locations, service) ==
  IF wrapper = "osrm" THEN OsrmBuildQuery(locations, service)
  ELSE OrsBuildQuery(locations, service)

\* The responses of the route service: a status and one route with its
\* legs (osrm-routed) or segments (ORS) and its geometry.
RouteResponses ==
  { status \o <<Member("routes", <<[legs |-> [k \in 1..n |-> k], geometry |-> g]>>)>> :
      status \in StatusSet, n \in 0..(MaxSteps + 2), g \in {"_p~iF", "~ps|U"} }

\* get_legs_number: the number of legs (segments) of the first route.
get_legs_number(json) == Len(Lookup(json, "routes")[1].legs)

\* get_geometry: the geometry of the first route.
get_geometry(json) == Lookup(json, "routes")[1].geometry

InitGeometry ==
  /\ pc = "add_geometry" /\ exc = "none"
  /\ amount_len = 0 /\ IdleParse /\ IdleVehicle /\ IdleHttp /\ IdleCall /\ IdleOrOpt
  /\ build \in {"debug", "release"}
  /\ wrapper \in {"osrm", "ors"}
  /\ route \in Routes
  /\ query = ""
  /\ locs = <<>> /\ json_result = <<>> /\ m = <<>>
  /\ nb_unfound_from_loc = <<>> /\ nb_unfound_to_loc = <<>>
  /\ durations_matrix = FALSE /\ distances_matrix = FALSE
  /\ written = {} /\ oob = {} /\ calls = <<>> /\ what = ""

geometryFrame == <<parseVars, vehicleVars, httpVars, callVars, orOptVars, build, wrapper, m,
                   nb_unfound_from_loc, nb_unfound_to_loc, durations_matrix,
                   distances_matrix, written, oob>>

\* Lines 230-241: the locations of the steps that are no break, in route
\* order, and the query built from them for the route service.
GeometryBuildQuery ==
  /\ pc = "add_geometry"
  /\ locs' = NonBreakLocations(route.steps, 1, <<>>)
  /\ query' = build_query(locs', RouteService)
  /\ pc' = "run_query"
  /\ UNCHANGED <<geometryFrame, exc, route, json_result, calls, what>>

\* Lines 243-246: run_query throws a RoutingException or returns the text
\* of a response, which is parsed.
GeometryRunQuery ==
  /\ pc = "run_query"
  /\ calls' = Append(calls, "run_query")
  /\ \/ /\ pc' = "thrown" /\ exc' = "RoutingException" /\ what' = "Failed to connect"
        /\ UNCHANGED json_result
     \/ /\ json_result' \in RouteResponses
        /\ pc' = "check_response"
        /\ UNCHANGED <<exc, what>>
  /\ UNCHANGED <<geometryFrame, route, query, locs>>

\* Lines 247-249.
GeometryCheckResponse ==
  /\ pc = "check_response"
  /\ calls' = Append(calls, "check_response")
  /\ LET r == check_response(json_result) IN
       IF r.asserted /\ build = "debug"
       THEN pc' = "aborted" /\ UNCHANGED <<exc, what>>
       ELSE IF r.err # "none"
       THEN pc' = "thrown" /\ exc' = r.err /\ what' = r.msg
       ELSE pc' = "legs" /\ UNCHANGED <<exc, what>>
  /\ UNCHANGED <<geometryFrame, route, query, locs, json_result>>

\* Line 251: assert(get_legs_number(json_result) == non_break_locations.size() - 1).
GeometryLegs ==
  /\ pc = "legs"
  /\ pc' = IF build = "debug" /\ get_legs_number(json_result) # Len(locs) - 1
           THEN "aborted" ELSE "geometry"
  /\ UNCHANGED <<geometryFrame, exc, route, query, locs, json_result, calls, what>>

\* Line 253: route.geometry = get_geometry(json_result).
GeometrySet ==
  /\ pc = "geometry"
  /\ route' = [route EXCEPT !.geometry = get_geometry(json_result)]
  /\ pc' = "returned"
  /\ UNCHANGED <<geometryFrame, exc, query, locs, json_result, calls, what>>

NextGeometry ==
  \/ GeometryBuildQuery
  \/ GeometryRunQuery
  \/ GeometryCheckResponse
  \/ GeometryLegs
  \/ GeometrySet

SpecGeometry == InitGeometry /\ [][NextGeometry]_vars

\* The steps of the route that are no break, in route order.
NonBreakSteps == SelectSeq(route.steps, LAMBDA step : step.step_type # "BREAK")

\* The response is one the wrapper's check lets through.
ResponseAccepted ==
  IF wrapper = "osrm"
  THEN HasMember(json_result, "code") /\ Lookup(json_result, "code") = "Ok"
  ELSE ~HasMember(json_result, "error")

\* C11: add_geometry asks the route service, once, for the locations of the
\* route's steps in route order with exactly the breaks left out, and sets
\* route.geometry from the response only after check_response has passed;
\* with the asserts on, the response holds one leg fewer than there are
\* non-break steps.
C11_GeometryFromCheckedResponse ==
  /\ pc # "add_geometry" =>
       /\ Len(locs) = Len(NonBreakSteps)
       /\ \A k \in 1..Len(locs) : <<locs[k]>> = NonBreakSteps[k].location
       /\ query = build_query([k \in 1..Len(NonBreakSteps) |-> NonBreakSteps[k].location[1]],
                              RouteService)
  /\ Cardinality({k \in 1..Len(calls) : calls[k] = "run_query"}) <= 1
  /\ route.geometry # "" =>
       /\ pc = "returned"
       /\ calls = <<"run_query", "check_response">>
       /\ ResponseAccepted
       /\ route.geometry = Lookup(json_result, "routes")[1].geometry
  /\ pc = "returned" => route.geometry # ""
  /\ (pc = "returned" /\ build = "debug") =>
       Len(Lookup(json_result, "routes")[1].legs) = Len(NonBreakSteps) - 1

\* A route with a break between two jobs whose geometry was set.
C11_Witness ==
  /\ pc = "returned"
  /\ route.geometry = "~ps|U"
  /\ \E k \in 2..(Len(route.steps) - 1) :
       /\ route.steps[k].step_type = "BREAK"
       /\ route.steps[k - 1].step_type = "JOB"
       /\ route.steps[k + 1].step_type = "JOB"
  /\ Len(locs) = Len(route.steps) - 1

(***************************************************************************)
(* get_amount called on its own.                                           *)
(***************************************************************************)
\* The variables of the functions a call on its own does not run.
callFrame == <<parseVars, vehicleVars, httpVars, matricesVars, geometryVars, orOptVars>>

IdleOthers ==
  /\ amount_len = 0 /\ IdleParse /\ IdleVehicle /\ IdleHttp /\ IdleMatrices /\ IdleGeometry
  /\ IdleOrOpt

\* The objects get_amount is applied to: an id and, under key, an array of
\* 0 to MaxAmountLen + 1 numbers, or no member under key.
AmountObjects(key) ==
  {<<Member("id", 1)>>} \cup
  { <<Member("id", 1), Member(key, AmountOf(n, base))>> :
      n \in 0..(MaxAmountLen + 1), base \in {0, 3, 7} }

InitAmount ==
  /\ pc = "get_amount" /\ exc = "none"
  /\ IdleOthers
  /\ \E key \in {"capacity", "delivery"} :
       args \in { [object |-> o, key |-> key, amount_size |-> size] :
                    o \in AmountObjects(key), size \in 0..MaxAmountLen }
  /\ outcome = <<>>

\* The call of a function on its own ends: it returned r.val or threw r.err.
CallEnds(r) ==
  /\ outcome' = r
  /\ exc' = r.err
  /\ pc' = IF r.err = "none" THEN "returned" ELSE "thrown"
  /\ UNCHANGED <<callFrame, args>>

GetAmount ==
  /\ pc = "get_amount"
  /\ CallEnds(get_amount(args.object, args.key, args.amount_size))

NextAmount == GetAmount

SpecAmount == InitAmount /\ [][NextAmount]_vars

\* C12: get_amount returns an Amount of amount_size components, the i-th
\* being the i-th element of the array under key, or throws an InputError;
\* when the array has another length than amount_size the InputError is
\* "Inconsistent <key> length: <array length> and <amount_size>.".
C12_AmountOrLengthError ==
  pc # "get_amount" =>
    /\ \/ /\ outcome.err = "none"
          /\ Len(outcome.val) = args.amount_size
          /\ \A i \in 1..args.amount_size : outcome.val[i] = Lookup(args.object, args.key)[i]
       \/ outcome.err = "InputException"
    /\ (HasMember(args.object, args.key) /\ Len(Lookup(args.object, args.key)) # args.amount_size)
         => /\ outcome.err = "InputException"
            /\ outcome.msg = "Inconsistent " \o args.key \o " length: "
                               \o ToString(Len(Lookup(args.object, args.key)))
                               \o " and " \o ToString(args.amount_size) \o "."

(***************************************************************************)
(* get_vehicle: the cost parameters and the forced steps.                  *)
(***************************************************************************)
\* The cost parameter the vehicle object gives under name, or its default.
ExpectedCost(object, name, default) ==
  IF HasMember(object, "cost") /\ HasMember(Lookup(object, "cost"), name)
  THEN Lookup(Lookup(object, "cost"), name)
  ELSE default

\* C13: get_vehicle carries the cost parameters of the input: the
\* VehicleCosts of a vehicle with cost {fixed: f, per_hour: h, per_km: k}
\* is (f, h, k), and a member absent from cost, or an absent cost, takes its
\* default (0, DEFAULT_COST_PER_HOUR, DEFAULT_COST_PER_KM).
C13_CostsCarried ==
  (pc # "get_vehicle" /\ amount_len = amount_size) =>
    /\ exc = "none"
    /\ vehicle.costs = << ExpectedCost(json_vehicle, "fixed", 0),
                          ExpectedCost(json_vehicle, "per_hour", DEFAULT_COST_PER_HOUR),
                          ExpectedCost(json_vehicle, "per_km", DEFAULT_COST_PER_KM) >>

\* C14: get_vehicle carries the forced steps of the input: a non-empty
\* steps array yields a Vehicle with one step per element, in the same
\* order.
C14_StepsCarried ==
  (pc = "returned" /\ HasMember(json_vehicle, "steps")) =>
    /\ Len(vehicle.steps) = Len(Lookup(json_vehicle, "steps"))
    /\ \A k \in 1..Len(vehicle.steps) :
         vehicle.steps[k].type = Lookup(json_vehicle, "steps")[k].type

(***************************************************************************)
(* get_job and get_break called on their own.                              *)
(***************************************************************************)
\* The members the job objects of the calls are built from.
JobMembers(n) ==
  << Member("id", 1),
     Member("location_index", 0),
     Member("location", <<2, 48>>),
     Member("delivery", AmountOf(n, 0)),
     Member("amount", AmountOf(n, 3)),
     Member("pickup", AmountOf(n, 7)),
     Member("time_windows", <<>>),
     Member("time_windows", NotAnArray),
     Member("time_windows", <<<<10, 20>>>>),
     Member("time_windows", <<<<50, 60>>, <<10, 30>>, <<10, 20>>>>),
     Member("service", 4) >>

JobObjects(n) ==
  {o \in {ObjectOf(JobMembers(n), s) :
            s \in InjectiveSeqs(Len(JobMembers(n)), MaxMembers)} : DistinctKeys(o)}

\* The members the break objects of the calls are built from.
BreakMembers(n) ==
  << Member("id", 2),
     Member("time_windows", <<>>),
     Member("time_windows", NotAnArray),
     Member("time_windows", <<<<10, 20>>>>),
     Member("time_windows", <<<<50, 60>>, <<10, 30>>, <<10, 20>>>>),
     Member("service", 4),
     Member("max_load", AmountOf(n, 0)),
     Member("description", "lunch") >>

BreakObjects(n) ==
  {o \in {ObjectOf(BreakMembers(n), s) :
            s \in InjectiveSeqs(Len(BreakMembers(n)), MaxMembers)} : DistinctKeys(o)}

InitTask ==
  /\ pc = "call" /\ exc = "none"
  /\ IdleOthers
  /\ \E n \in 1..MaxAmountLen, size \in 1..MaxAmountLen :
       args \in { [fn |-> "get_job", object |-> o, amount_size |-> size] : o \in JobObjects(n) }
                  \cup
                { [fn |-> "get_break", object |-> o, amount_size |-> size] : o \in BreakObjects(n) }
  /\ outcome = <<>>

GetJob ==
  /\ pc = "call" /\ args.fn = "get_job"
  /\ \E g \in Indeterminate : CallEnds(get_job(args.object, args.amount_size, g))

GetBreak ==
  /\ pc = "call" /\ args.fn = "get_break"
  /\ CallEnds(get_break(args.object, args.amount_size))

NextTask ==
  \/ GetJob
  \/ GetBreak

SpecTask == InitTask /\ [][NextTask]_vars

\* The time windows are in ascending order.
Ascending(tws) == \A k \in 1..(Len(tws) - 1) : ~TwLess(tws[k + 1], tws[k])

\* The object's time_windows is no array, or an empty one.
BadTimeWindows(o) ==
  /\ HasMember(o, "time_windows")
  /\ ~IsArray(Lookup(o, "time_windows")) \/ Lookup(o, "time_windows") = <<>>

\* C15: every job and every break built has a non-empty list of time
\* windows in ascending order: get_time_windows throws an InputError when
\* time_windows is no array or an empty array and returns the windows
\* sorted otherwise, and a job without time_windows gets exactly one
\* default window.
C15_TimeWindowsSorted ==
  pc # "call" =>
    /\ outcome.err = "none" =>
         /\ outcome.val.tws # <<>>
         /\ Ascending(outcome.val.tws)
         /\ HasMember(args.object, "time_windows") =>
              /\ Len(outcome.val.tws) = Len(Lookup(args.object, "time_windows"))
              /\ {outcome.val.tws[k] : k \in 1..Len(outcome.val.tws)}
                   = {Lookup(args.object, "time_windows")[k] :
                        k \in 1..Len(Lookup(args.object, "time_windows"))}
         /\ (args.fn = "get_job" /\ ~HasMember(args.object, "time_windows")) =>
              outcome.val.tws = <<TimeWindowDefault>>
    /\ BadTimeWindows(args.object) => outcome.err = "InputException"

(***************************************************************************)
(* cvrp_or_opt (or_opt.h).  The header declares the operator; the bodies   *)
(* of is_valid, apply and addition_candidates follow the description of    *)
(* the or-opt move: the edge of two consecutive jobs at source_rank of the *)
(* source route moves to target_rank of the target route, reversed when    *)
(* reverse_source_edge is set.  A raw_solution is the sequence of the      *)
(* vehicles' routes, a route the sequence of its jobs; ranks count from 0. *)
(***************************************************************************)
OrOptVehicles == 1..3

\* The solutions the operator is built on: every job in one route, the jobs
\* of a route in increasing order.
RouteOf(assignment, v) ==
  LET jobs == {j \in 1..MaxJobs : assignment[j] = v}
      RECURSIVE Sorted(_)
      Sorted(js) == IF js = {} THEN <<>>
                    ELSE LET least == CHOOSE j \in js : \A other \in js : j <= other
                         IN <<least>> \o Sorted(js \ {least})
  IN Sorted(jobs)

RawSolutions ==
  { [v \in OrOptVehicles |-> RouteOf(assignment, v)] :
      assignment \in [1..MaxJobs -> OrOptVehicles] }

\* What a member function gives back: the declared return type and the value.
Gives(type, value) == [err |-> "none", returns |-> type, val |-> value]

\* The constructor's arguments: two distinct vehicles, an edge of the
\* source route, a rank of the target route.
InitOrOpt ==
  /\ pc = "constructed" /\ exc = "none"
  /\ amount_len = 0 /\ IdleParse /\ IdleVehicle /\ IdleHttp /\ IdleMatrices /\ IdleGeometry
  /\ sol \in RawSolutions
  /\ \E source_vehicle \in OrOptVehicles, target_vehicle \in OrOptVehicles,
        reverse_source_edge \in BOOLEAN :
       /\ source_vehicle # target_vehicle
       /\ Len(sol[source_vehicle]) >= 2
       /\ args \in { [sol |-> sol,
                      source_vehicle |-> source_vehicle, source_rank |-> source_rank,
                      target_vehicle |-> target_vehicle, target_rank |-> target_rank,
                      reverse_source_edge |-> reverse_source_edge] :
                       source_rank \in 0..(Len(sol[source_vehicle]) - 2),
                       target_rank \in 0..Len(sol[target_vehicle]) }
  /\ outcome = <<>>

orOptFrame == <<exc, parseVars, vehicleVars, httpVars, matricesVars, geometryVars, args>>

\* The number of jobs a vehicle can take.
OrOptCapacity == 3

\* bool is_valid() const (or_opt.h:30): the target route can take two more jobs.
OrOptIsValid ==
  /\ pc = "constructed"
  /\ outcome' = Gives("bool", Len(sol[args.target_vehicle]) + 2 <= OrOptCapacity)
  /\ pc' = "validated"
  /\ UNCHANGED <<orOptFrame, sol>>

\* The route without the two jobs at rank and rank + 1.
EraseEdge(r, rank) == SubSeq(r, 1, rank) \o SubSeq(r, rank + 3, Len(r))

\* The route with the edge inserted at rank.
InsertEdge(r, rank, edge) == SubSeq(r, 1, rank) \o edge \o SubSeq(r, rank + 1, Len(r))

\* void apply() const (or_opt.h:32).
OrOptApply ==
  /\ pc = "validated" /\ outcome.val
  /\ LET source == sol[args.source_vehicle]
         first == source[args.source_rank + 1]
         second == source[args.source_rank + 2]
         edge == IF args.reverse_source_edge THEN <<second, first>> ELSE <<first, second>>
     IN sol' = [sol EXCEPT
                  ![args.target_vehicle] = InsertEdge(@, args.target_rank, edge),
                  ![args.source_vehicle] = EraseEdge(@, args.source_rank)]
  /\ outcome' = Gives("void", {})
  /\ pc' = "applied"
  /\ UNCHANGED orOptFrame

\* std::vector<index_t> addition_candidates() const (or_opt.h:34).
OrOptAdditionCandidates ==
  /\ pc = "applied"
  /\ outcome' = Gives("vector", {args.source_vehicle})
  /\ pc' = "candidates"
  /\ UNCHANGED <<orOptFrame, sol>>

NextOrOpt ==
  \/ OrOptIsValid
  \/ OrOptApply
  \/ OrOptAdditionCandidates

SpecOrOpt == InitOrOpt /\ [][NextOrOpt]_vars

\* C16: apply() changes only the routes of the source and of the target
\* vehicle and returns the set of the route ids whose cache must be
\* rebuilt; is_valid() and addition_candidates() leave the solution as it is.
C16_OrOptFrame ==
  /\ pc \in {"constructed", "validated"} => sol = args.sol
  /\ pc \in {"applied", "candidates"} =>
       \A v \in OrOptVehicles \ {args.source_vehicle, args.target_vehicle} : sol[v] = args.sol[v]
  /\ pc = "applied" =>
       /\ outcome.returns = "vector"
       /\ outcome.val = {args.source_vehicle, args.target_vehicle}
  /\ pc \in {"applied", "candidates"} =>
       /\ Len(sol[args.source_vehicle]) = Len(args.sol[args.source_vehicle]) - 2
       /\ Len(sol[args.target_vehicle]) = Len(args.sol[args.target_vehicle]) + 2

\* The delivery the job object describes: its delivery, or its deprecated
\* amount when it has neither pickup nor delivery, or a zero amount.
ExpectedDelivery(o, size) ==
  IF HasMember(o, "delivery") THEN Lookup(o, "delivery")
  ELSE IF HasMember(o, "amount") /\ ~HasMember(o, "pickup") THEN Lookup(o, "amount")
  ELSE [i \in 1..size |-> 0]

\* C17: get_job takes the deprecated amount key as the job's delivery only
\* when the job has neither pickup nor delivery: the delivery of a job
\* with both delivery and amount is the value of delivery, in either order
\* of the two keys.
C17_AmountOnlyWithoutDelivery ==
  (pc = "returned" /\ args.fn = "get_job") =>
    outcome.val.delivery = ExpectedDelivery(args.object, args.amount_size)

(***************************************************************************)
(* get_matrix called on its own.  The Matrix is the sequence of its rows;  *)
(* a write with i or j beyond matrix_size - 1 is an access outside the     *)
(* Matrix, with the outcomes of UndefinedOutcomes.                         *)
(***************************************************************************)
\* The values get_matrix is applied to: no array, or an array of 0 to
\* MaxMatrixSize rows of 0 to matrix_size + 1 numbers, distinct by position.
MatrixValues ==
  {NotAnArray} \cup
  { [i \in 1..n |-> [j \in 1..lengths[i] |-> 10 * i + j]] :
      <<n, lengths>> \in
        { <<k, l>> \in (0..MaxMatrixSize) \X
                          UNION {[1..k -> 0..(MaxMatrixSize + 1)] : k \in 0..MaxMatrixSize} :
            /\ DOMAIN l = 1..k
            /\ \A i \in 1..k : l[i] <= k + 1 } }

\* Lines 486-491: the loop over the elements of the i-th row, from its
\* e-th element on; j is the column counter the loops share.
RECURSIVE MatrixElements(_, _, _, _, _, _, _)
MatrixElements(st, sub_array, i, e, j, matrix_size, ub) ==
  IF e > Len(sub_array) \/ st.stop # "none" THEN [st |-> st, j |-> j]
  ELSE LET wrote == WriteCell(st, "matrix", i, j + 1, sub_array[e], matrix_size, ub)
       IN IF wrote.stop = "none" /\ j + 1 > matrix_size
          THEN [st |-> [wrote EXCEPT !.stop = "throw"], j |-> j + 1]
          ELSE MatrixElements(wrote, sub_array, i, e + 1, j + 1, matrix_size, ub)

\* Lines 485-493: the loop over the rows, from the i-th (counted from 0) on.
RECURSIVE MatrixRows(_, _, _, _, _, _)
MatrixRows(st, array, i, j, matrix_size, ub) ==
  IF i >= Len(array) \/ st.stop # "none" THEN st
  ELSE LET row == MatrixElements(st, array[i + 1], i, 1, j, matrix_size, ub)
       IN MatrixRows(row.st, array, i + 1, row.j, matrix_size, ub)

get_matrix(value, ub) ==
  IF ~IsArray(value)
  THEN [err |-> "InputException", msg |-> "Invalid matrix.", val |-> <<>>, oob |-> {}]
  ELSE LET matrix_size == Len(value)
           st == MatrixRows([cells |-> [i \in 1..matrix_size |-> Zeros(matrix_size)],
                             written |-> {}, oob |-> {}, stop |-> "none"],
                            value, 0, 0, matrix_size, ub)
       IN [err |-> CASE st.stop = "throw" -> "InputException"
                     [] st.stop = "crash" -> "crash"
                     [] OTHER -> "none",
           msg |-> IF st.stop = "throw" THEN "Unexpected matrix line length." ELSE "",
           val |-> st.cells,
           oob |-> st.oob]

InitMatrix ==
  /\ pc = "call" /\ exc = "none"
  /\ IdleOthers
  /\ args \in {[fn |-> "get_matrix", m |-> value] : value \in MatrixValues}
  /\ outcome = <<>>

GetMatrix ==
  /\ pc = "call"
  /\ \E ub \in UndefinedOutcomes :
       LET r == get_matrix(args.m, ub) IN
       /\ outcome' = r
       /\ exc' = IF r.err = "crash" THEN "none" ELSE r.err
       /\ pc' = CASE r.err = "none" -> "returned"
                  [] r.err = "crash" -> "crashed"
                  [] OTHER -> "thrown"
  /\ UNCHANGED <<callFrame, args>>

NextMatrix == GetMatrix

SpecMatrix == InitMatrix /\ [][NextMatrix]_vars

\* C18: get_matrix returns, for an array of n rows of n numbers, the n x n
\* matrix with matrix[i][j] the j-th element of the i-th row, and writes no
\* cell outside those bounds; for an input with a row whose length is not
\* n it throws the InputError "Unexpected matrix line length.", and for a
\* value that is no array the InputError "Invalid matrix.".
C18_SquareMatrixLoaded ==
  pc # "call" =>
    /\ outcome.oob = {}
    /\ IF ~IsArray(args.m)
       THEN pc = "thrown" /\ outcome.err = "InputException" /\ outcome.msg = "Invalid matrix."
       ELSE IF \A i \in 1..Len(args.m) : Len(args.m[i]) = Len(args.m)
       THEN pc = "returned" /\ outcome.val = args.m
       ELSE /\ pc = "thrown" /\ outcome.err = "InputException"
            /\ outcome.msg = "Unexpected matrix line length."

(***************************************************************************)
(* C19: for every response received, send_then_receive /                   *)
(* ssl_send_then_receive either throws a RoutingException ("Invalid        *)
(* routing response") or returns the payload without the headers, the      *)
(* substring from the first '{' to the last '}' inclusive: every returned  *)
(* string starts with '{' and ends with '}', also when a '}' occurs        *)
(* before the first '{'.                                                   *)
(***************************************************************************)
C19_PayloadInBraces ==
  /\ pc = "returned" =>
       /\ json_string # <<>>
       /\ json_string[1] = "{"
       /\ json_string[Len(json_string)] = "}"
       /\ \E first, last \in 1..Len(response) :
            /\ first <= last
            /\ \A k \in 1..(first - 1) : response[k] # "{"
            /\ \A k \in (last + 1)..Len(response) : response[k] # "}"
            /\ json_string = [k \in 1..(last - first + 1) |-> response[first + k - 1]]
  /\ (pc = "thrown" /\ failure = "none") =>
       /\ exc = "RoutingException"
       /\ \/ \A k \in 1..Len(response) : response[k] # "{"
          \/ \A k \in 1..Len(response) : response[k] # "}"

(***************************************************************************)
(* OsrmRoutedWrapper::check_response called on its own.                    *)
(***************************************************************************)
\* The responses check_response is applied to.
CheckedResponses ==
  { <<>>,
    <<Member("code", "Ok")>>,
    <<Member("code", "Ok"), Member("message", "Query string malformed")>>,
    <<Member("code", "InvalidQuery")>>,
    <<Member("code", "InvalidQuery"), Member("message", "Query string malformed")>>,
    <<Member("code", "NoSegment")>>,
    <<Member("code", "NoSegment"), Member("message", "Query string malformed")>> }
  \cup
  { <<Member("code", code), Member("message", snapping_error_base \o rest)>> :
      code \in {"NoSegment", "NoRoute"}, rest \in SnappingSuffixes }

\* The locations of the query: 0 to MaxLocs of them.
CheckedLocations == { [k \in 1..n |-> <<k, 40 + k>>] : n \in 0..MaxLocs }

InitCheck ==
  /\ pc = "call" /\ exc = "none"
  /\ IdleOthers
  /\ args \in { [fn |-> "check_response", json_result |-> result, locs |-> locations,
                 build |-> b] :
                result \in CheckedResponses, locations \in CheckedLocations,
                b \in {"debug", "release"} }
  /\ outcome = <<>>

CheckResponse ==
  /\ pc = "call"
  /\ \E ub \in UndefinedOutcomes, garbage \in Indeterminate :
       LET r == OsrmCheckResponse(args.json_result, args.locs, ub, garbage) IN
       IF r.asserted /\ args.build = "debug"
       THEN /\ outcome' = [r EXCEPT !.err = "none", !.msg = "", !.oob = FALSE]
            /\ pc' = "aborted"
            /\ exc' = "none"
       ELSE /\ outcome' = r
            /\ exc' = IF r.err = "crash" THEN "none" ELSE r.err
            /\ pc' = CASE r.err = "none" -> "returned"
                       [] r.err = "crash" -> "crashed"
                       [] OTHER -> "thrown"
  /\ UNCHANGED <<callFrame, args>>

NextCheck == CheckResponse

SpecCheck == InitCheck /\ [][NextCheck]_vars

\* C20: OsrmRoutedWrapper::check_response throws for every response whose
\* code is not "Ok" and never for code "Ok", and what it throws is always a
\* RoutingException: for code "NoSegment" with a message "Could not find a
\* matching segment for coordinate <k>" the error names the coordinates of
\* locs[k], k being a valid index of locs, and in every other case it
\* carries the message of the response.
C20_RoutingExceptionOnly ==
  (pc # "call" /\ HasMember(args.json_result, "code")) =>
    LET code == Lookup(args.json_result, "code")
        message == IF HasMember(args.json_result, "message")
                   THEN Lookup(args.json_result, "message") ELSE ""
    IN /\ (pc = "returned") = (code = "Ok")
       /\ code # "Ok" =>
            /\ pc = "thrown" /\ exc = "RoutingException"
            /\ IF /\ code = "NoSegment"
                  /\ \E k \in 0..(MaxLocs + 1) : message = snapping_error_base \o ToString(k)
               THEN \E k \in 0..(Len(args.locs) - 1) :
                      /\ message = snapping_error_base \o ToString(k)
                      /\ outcome.msg = "Could not find route near location ["
                                         \o ToString(args.locs[k + 1][1]) \o ","
                                         \o ToString(args.locs[k + 1][2]) \o "]"
               ELSE outcome.msg = message

(***************************************************************************)
(* C21: whatever the shape of the response, get_matrices(locs) never       *)
(* writes a cell m.durations[i][j] or m.distances[i][j], nor a counter     *)
(* nb_unfound_from_loc[i] or nb_unfound_to_loc[j], with i or j >=          *)
(* locs.size(), and never returns Matrices built from a durations or       *)
(* distances array whose row count or any row length differs from          *)
(* locs.size().                                                            *)
(***************************************************************************)
C21_WritesWithinMatrices ==
  /\ oob = {}
  /\ \A cell \in written : cell[2] < Len(locs) /\ cell[3] < Len(locs)
  /\ pc = "returned" =>
       \A kind \in {"durations", "distances"} :
         /\ HasMember(json_result, kind)
         /\ Len(Lookup(json_result, kind)) = Len(locs)
         /\ \A i \in 1..Len(Lookup(json_result, kind)) :
              Len(Lookup(json_result, kind)[i]) = Len(locs)

=============================================================================
